---- MODULE Spec2Model ----
(***************************************************************************)
(* Tag-driven automation tools of cursor-crm: scripts/reminders_cli.py,    *)
(* scripts/calendar_cli.py and scripts/imessage_send.py.                   *)
(*                                                                         *)
(* Text is a sequence of one-character strings; a file is the sequence of  *)
(* its characters.  The persisted ledgers, the executor (osascript) and    *)
(* the clock are the environment.                                          *)
(***************************************************************************)
EXTENDS Integers, Sequences, FiniteSets, TLC

(***************************************************************************)
(* Characters and Python str helpers                                       *)
(***************************************************************************)
DQ == "\""
BS == "\\"
NL == "\n"
TAB == "\t"

\* Python None, a value no text equals (every element of a text is one character)
None == <<"None">>

\* str.isspace for the characters of the model's alphabet
IsSpace(c) == c \in {" ", TAB, NL}

IsDigit(c) == c \in {"0", "1", "2", "3", "4", "5", "6", "7", "8", "9"}

DigitVal(c) ==
    CASE c = "0" -> 0 [] c = "1" -> 1 [] c = "2" -> 2 [] c = "3" -> 3
      [] c = "4" -> 4 [] c = "5" -> 5 [] c = "6" -> 6 [] c = "7" -> 7
      [] c = "8" -> 8 [] c = "9" -> 9

RECURSIVE LStrip(_)
LStrip(s) == IF s # <<>> /\ IsSpace(Head(s)) THEN LStrip(Tail(s)) ELSE s

RECURSIVE RStrip(_)
RStrip(s) ==
    IF s # <<>> /\ IsSpace(s[Len(s)]) THEN RStrip(SubSeq(s, 1, Len(s) - 1)) ELSE s

\* str.strip()
Strip(s) == RStrip(LStrip(s))

\* "c in s" for a one-character c
Contains(s, c) == \E i \in 1..Len(s) : s[i] = c

\* s.startswith(p) with the match starting at position i (1-based)
StartsWithAt(s, p, i) ==
    /\ i + Len(p) - 1 <= Len(s)
    /\ \A k \in 1..Len(p) : s[i + k - 1] = p[k]

\* s.find(p, i): the first position >= i where p occurs, 0 when there is none
Find(s, p, i) ==
    LET hits == {k \in i..(Len(s) - Len(p) + 1) : StartsWithAt(s, p, k)} IN
    IF hits = {} THEN 0 ELSE CHOOSE k \in hits : \A h \in hits : k <= h

\* str.replace of a two-character pattern <<a, b>> by the text r,
\* leftmost occurrences first, non-overlapping
RECURSIVE Replace2(_, _, _, _)
Replace2(s, a, b, r) ==
    IF Len(s) < 2 THEN s
    ELSE IF s[1] = a /\ s[2] = b THEN r \o Replace2(SubSeq(s, 3, Len(s)), a, b, r)
    ELSE <<s[1]>> \o Replace2(Tail(s), a, b, r)

UpperCase == <<"A", "B", "C", "D", "E", "F", "G", "H", "I", "J", "K", "L", "M",
               "N", "O", "P", "Q", "R", "S", "T", "U", "V", "W", "X", "Y", "Z">>
LowerCase == <<"a", "b", "c", "d", "e", "f", "g", "h", "i", "j", "k", "l", "m",
               "n", "o", "p", "q", "r", "s", "t", "u", "v", "w", "x", "y", "z">>

LowerChar(c) ==
    IF \E i \in 1..26 : UpperCase[i] = c
    THEN LowerCase[CHOOSE i \in 1..26 : UpperCase[i] = c]
    ELSE c

\* str.lower()
Lower(s) == [i \in 1..Len(s) |-> LowerChar(s[i])]

\* dict.get(k): the value, or None
Get(d, k) == IF k \in DOMAIN d THEN d[k] ELSE None

\* Python truthiness of an optional text: neither None nor ""
Truthy(v) == v # None /\ v # <<>>

\* "v or ''" for an optional text
OrEmpty(v) == IF Truthy(v) THEN v ELSE <<>>

\* an assignment "name = v" followed by Body, which reads the name
With(v, Body(_)) == Body(v)

(***************************************************************************)
(* Parameter Parser: reminders_cli.py (calendar_cli.py and                 *)
(* imessage_send.py carry the same three functions)                        *)
(***************************************************************************)
\* the body of the for loop of split_kvlist for the character ch
split_step(st, ch) ==
    IF st.escape THEN [st EXCEPT !.buf = Append(@, ch), !.escape = FALSE]
    ELSE IF ch = BS THEN [st EXCEPT !.escape = TRUE]
    ELSE IF ch = DQ THEN [st EXCEPT !.in_quotes = ~@, !.buf = Append(@, ch)]
    ELSE IF ch = "," /\ ~st.in_quotes
         THEN [st EXCEPT !.parts = Append(@, Strip(st.buf)), !.buf = <<>>]
    ELSE [st EXCEPT !.buf = Append(@, ch)]

\* the for loop of split_kvlist over s[lo..hi] from the state st: the first
\* half of the characters, then the second
RECURSIVE split_loop(_, _, _, _)
split_loop(s, lo, hi, st) ==
    IF lo > hi THEN st
    ELSE IF lo = hi THEN split_step(st, s[lo])
    ELSE LET mid == (lo + hi) \div 2 IN
         CHOOSE r \in {split_loop(s, mid + 1, hi, first) :
                           first \in {split_loop(s, lo, mid, st)}} : TRUE

split_kvlist(s) ==
    With(split_loop(s, 1, Len(s),
                    [parts |-> <<>>, buf |-> <<>>, in_quotes |-> FALSE, escape |-> FALSE]),
         LAMBDA r :
             SelectSeq(IF r.buf # <<>> THEN Append(r.parts, Strip(r.buf)) ELSE r.parts,
                       LAMBDA p : p # <<>>))

unquote(s0) ==
    With(Strip(s0), LAMBDA s :
        IF Len(s) >= 2 /\ s[1] = DQ /\ s[Len(s)] = DQ
        THEN LET inner == SubSeq(s, 2, Len(s) - 1)
                 r1 == Replace2(inner, BS, DQ, <<DQ>>)
                 r2 == Replace2(r1, BS, "n", <<NL>>)
                 r3 == Replace2(r2, BS, "t", <<TAB>>)
             IN  Replace2(r3, BS, BS, <<BS>>)
        ELSE s)

MSG_KEY == <<"m", "e", "s", "s", "a", "g", "e">>
AT_KEY == <<"a", "t">>
ID_KEY == <<"i", "d">>
LIST_KEY == <<"l", "i", "s", "t">>
NOTE_KEY == <<"n", "o", "t", "e">>
PRIORITY_KEY == <<"p", "r", "i", "o", "r", "i", "t", "y">>
FLAGGED_KEY == <<"f", "l", "a", "g", "g", "e", "d">>
DURATION_KEY == <<"d", "u", "r", "a", "t", "i", "o", "n">>
TO_KEY == <<"t", "o">>

\* the loop of parse_tag_params with a key that is already present left as
\* it is
RECURSIVE parse_pairs_first_wins(_, _, _)
parse_pairs_first_wins(pairs, i, data) ==
    IF i > Len(pairs) THEN [err |-> FALSE, data |-> data]
    ELSE LET pair == pairs[i] IN
         IF ~Contains(pair, "=") THEN [err |-> TRUE, data |-> data]
         ELSE LET eq == Find(pair, <<"=">>, 1)
                  key == Strip(SubSeq(pair, 1, eq - 1))
                  val == unquote(Strip(SubSeq(pair, eq + 1, Len(pair))))
              IN  parse_pairs_first_wins(pairs, i + 1, data @@ (key :> val))

\* the loop of parse_tag_params over pairs[i..]; err is the raised ValueError
RECURSIVE parse_pairs(_, _, _)
parse_pairs(pairs, i, data) ==
    IF i > Len(pairs) THEN [err |-> FALSE, data |-> data]
    ELSE LET pair == pairs[i] IN
         IF ~Contains(pair, "=") THEN [err |-> TRUE, data |-> data]
         ELSE LET eq == Find(pair, <<"=">>, 1)
                  key == Strip(SubSeq(pair, 1, eq - 1))
                  val == unquote(Strip(SubSeq(pair, eq + 1, Len(pair))))
              IN  parse_pairs(pairs, i + 1, (key :> val) @@ data)

parse_tag_params(params_text) ==
    With(split_kvlist(params_text), LAMBDA pairs :
        IF pairs = <<>> THEN [err |-> FALSE, data |-> <<>>]
        ELSE LET first == pairs[1]
                 f == Strip(first)
                 positional == /\ ~Contains(first, "=")
                               /\ f # <<>> /\ f[1] = DQ /\ f[Len(f)] = DQ
             IN  IF positional
                 THEN parse_pairs(pairs, 2, (MSG_KEY :> unquote(first)))
                 ELSE parse_pairs(pairs, 1, <<>>))

(***************************************************************************)
(* Tag Scanner                                                             *)
(***************************************************************************)
REMINDER_OPENER == <<"@", "r", "e", "m", "i", "n", "d", "e", "r", "(">>
CALENDAR_OPENER == <<"@", "c", "a", "l", "e", "n", "d", "a", "r", "(">>
IMESSAGE_OPENER == <<"@", "i", "m", "e", "s", "s", "a", "g", "e", "(">>

\* the loop body with "and not in_quotes" left out of its test of ")"
extract_step_any_close(st, ch, j) ==
    IF st.closed THEN st
    ELSE IF st.escape THEN [st EXCEPT !.buf = Append(@, ch), !.escape = FALSE]
    ELSE IF ch = BS THEN [st EXCEPT !.buf = Append(@, ch), !.escape = TRUE]
    ELSE IF ch = DQ THEN [st EXCEPT !.buf = Append(@, ch), !.in_quotes = ~@]
    ELSE IF ch = "(" /\ ~st.in_quotes
         THEN [st EXCEPT !.buf = Append(@, ch), !.depth = @ + 1]
    ELSE IF ch = ")" /\ st.depth - 1 = 0
         THEN [st EXCEPT !.closed = TRUE, !.j = j, !.depth = 0]
    ELSE IF ch = ")"
         THEN [st EXCEPT !.buf = Append(@, ch), !.depth = @ - 1]
    ELSE [st EXCEPT !.buf = Append(@, ch)]

\* the body of the inner while loop of _extract_tag_params_from_line for
\* the character ch at position j; closed says that the loop has left by
\* its break, at position st.j
extract_step(st, ch, j) ==
    IF st.closed THEN st
    ELSE IF st.escape THEN [st EXCEPT !.buf = Append(@, ch), !.escape = FALSE]
    ELSE IF ch = BS THEN [st EXCEPT !.buf = Append(@, ch), !.escape = TRUE]
    ELSE IF ch = DQ THEN [st EXCEPT !.buf = Append(@, ch), !.in_quotes = ~@]
    ELSE IF ch = "(" /\ ~st.in_quotes
         THEN [st EXCEPT !.buf = Append(@, ch), !.depth = @ + 1]
    ELSE IF ch = ")" /\ ~st.in_quotes /\ st.depth - 1 = 0
         THEN [st EXCEPT !.closed = TRUE, !.j = j, !.depth = 0]
    ELSE IF ch = ")" /\ ~st.in_quotes
         THEN [st EXCEPT !.buf = Append(@, ch), !.depth = @ - 1]
    ELSE [st EXCEPT !.buf = Append(@, ch)]

\* the inner while loop over line[lo..hi] from the state st: the first half
\* of the characters, then the second
RECURSIVE extract_loop(_, _, _, _)
extract_loop(line, lo, hi, st) ==
    IF lo > hi THEN st
    ELSE IF lo = hi THEN extract_step(st, line[lo], lo)
    ELSE LET mid == (lo + hi) \div 2 IN
         CHOOSE r \in {extract_loop(line, mid + 1, hi, first) :
                           first \in {extract_loop(line, lo, mid, st)}} : TRUE

\* the inner while loop from position j: closed is FALSE when the loop ran
\* off the end of the line (the else branch)
extract_inner(line, j) ==
    extract_loop(line, j, Len(line),
                 [closed |-> FALSE, j |-> Len(line) + 1, buf |-> <<>>, depth |-> 1,
                  in_quotes |-> FALSE, escape |-> FALSE])

\* the outer while loop with the else branch of the inner loop (i = n) left
\* out: after an opener that is never closed the scan goes on behind it
RECURSIVE extract_outer_resume(_, _, _)
extract_outer_resume(line, i, results) ==
    IF i > Len(line) THEN results
    ELSE LET start == Find(line, REMINDER_OPENER, i) IN
         IF start = 0 THEN results
         ELSE With(extract_inner(line, start + Len(REMINDER_OPENER)), LAMBDA r :
                  IF r.closed THEN extract_outer_resume(line, r.j + 1, Append(results, r.buf))
                  ELSE extract_outer_resume(line, start + Len(REMINDER_OPENER), results))

\* the outer while loop of _extract_tag_params_from_line, from position i
RECURSIVE extract_outer(_, _, _)
extract_outer(line, i, results) ==
    IF i > Len(line) THEN results
    ELSE LET start == Find(line, REMINDER_OPENER, i) IN
         IF start = 0 THEN results
         ELSE With(extract_inner(line, start + Len(REMINDER_OPENER)), LAMBDA r :
                  IF r.closed THEN extract_outer(line, r.j + 1, Append(results, r.buf))
                  ELSE results)

_extract_tag_params_from_line(line) == extract_outer(line, 1, <<>>)

\* str.splitlines() with "\n" the line boundary
RECURSIVE splitlines(_)
splitlines(text) ==
    IF text = <<>> THEN <<>>
    ELSE LET nl == Find(text, <<NL>>, 1) IN
         IF nl = 0 THEN <<text>>
         ELSE <<SubSeq(text, 1, nl - 1)>> \o splitlines(SubSeq(text, nl + 1, Len(text)))

\* the for loop over the lines with the tags of a line put before those of
\* the lines above it
RECURSIVE number_tags_last_first(_, _)
number_tags_last_first(found, idx) ==
    IF idx > Len(found) THEN <<>>
    ELSE number_tags_last_first(found, idx + 1)
             \o [k \in 1..Len(found[idx]) |-> [line_no |-> idx, params_text |-> found[idx][k]]]

\* the for loop over enumerate(lines, start=1): found[idx] holds the parameter
\* texts scanned on line idx; the result is the (line number, params_text) list
RECURSIVE number_tags(_, _)
number_tags(found, idx) ==
    IF idx > Len(found) THEN <<>>
    ELSE [k \in 1..Len(found[idx]) |-> [line_no |-> idx, params_text |-> found[idx][k]]]
             \o number_tags(found, idx + 1)

\* reminders_cli.find_tags_in_text
find_tags_in_text(text) ==
    LET lines == splitlines(text) IN
    number_tags([i \in 1..Len(lines) |-> _extract_tag_params_from_line(lines[i])], 1)

\* re.finditer of  @<name>\(([^)]*)\)  on one line from position i: group 1 of
\* every match; a match is the leftmost opener that has a ")" after it, up to
\* the first ")"
RECURSIVE pattern_finditer(_, _, _)
pattern_finditer(line, opener, i) ==
    LET start == Find(line, opener, i) IN
    IF start = 0 THEN <<>>
    ELSE LET close == Find(line, <<")">>, start + Len(opener)) IN
         IF close = 0 THEN <<>>
         ELSE <<SubSeq(line, start + Len(opener), close - 1)>>
                  \o pattern_finditer(line, opener, close + 1)

CALENDAR_TAG_PATTERN(line) == pattern_finditer(line, CALENDAR_OPENER, 1)
TAG_PATTERN(line) == pattern_finditer(line, IMESSAGE_OPENER, 1)

\* calendar_cli.find_calendar_tags_in_text
find_calendar_tags_in_text(text) ==
    LET lines == splitlines(text) IN
    number_tags([i \in 1..Len(lines) |-> CALENDAR_TAG_PATTERN(lines[i])], 1)

\* imessage_send.find_tags_in_text
send_find_tags_in_text(text) ==
    LET lines == splitlines(text) IN
    number_tags([i \in 1..Len(lines) |-> TAG_PATTERN(lines[i])], 1)

(***************************************************************************)
(* Temporal Resolver.  A datetime is a record of year, month, day, hour,   *)
(* minute and second (naive local time; microseconds are not modelled).    *)
(***************************************************************************)
MINYEAR == 1
MAXYEAR == 9999

DateTime(y, mo, d, h, mi, sec) ==
    [year |-> y, month |-> mo, day |-> d, hour |-> h, minute |-> mi, second |-> sec]

\* the result of an operation that raised (ValueError, OverflowError)
Raised == [err |-> TRUE, t |-> DateTime(0, 0, 0, 0, 0, 0)]
Resolved(t) == [err |-> FALSE, t |-> t]

IsLeap(y) == y % 4 = 0 /\ (y % 100 # 0 \/ y % 400 = 0)

DaysInMonth(y, m) ==
    IF m = 2 THEN (IF IsLeap(y) THEN 29 ELSE 28)
    ELSE IF m \in {4, 6, 9, 11} THEN 30 ELSE 31

RECURSIVE DaysBeforeMonth(_, _)
DaysBeforeMonth(y, m) ==
    IF m = 1 THEN 0 ELSE DaysBeforeMonth(y, m - 1) + DaysInMonth(y, m - 1)

DaysBeforeYear(y) ==
    (y - 1) * 365 + ((y - 1) \div 4) - ((y - 1) \div 100) + ((y - 1) \div 400)

\* date.toordinal(): 0001-01-01 is day 1
ToOrdinal(y, m, d) == DaysBeforeYear(y) + DaysBeforeMonth(y, m) + d

MaxOrdinal == ToOrdinal(MAXYEAR, 12, 31)

\* the month and day of the 0-based day n of year y
RECURSIVE MonthDay(_, _, _)
MonthDay(y, m, n) ==
    IF n < DaysInMonth(y, m) THEN [month |-> m, day |-> n + 1]
    ELSE MonthDay(y, m + 1, n - DaysInMonth(y, m))

\* date.fromordinal()
FromOrdinal(ord) ==
    LET n0 == ord - 1
        n400 == n0 \div 146097
        r400 == n0 % 146097
        n100 == r400 \div 36524
        r100 == r400 % 36524
        n4 == r100 \div 1461
        r4 == r100 % 1461
        n1 == r4 \div 365
        r1 == r4 % 365
        y == n400 * 400 + 1 + n100 * 100 + n4 * 4 + n1
    IN  IF n1 = 4 \/ n100 = 4 THEN [year |-> y - 1, month |-> 12, day |-> 31]
        ELSE With(MonthDay(y, 1, r1), LAMBDA md :
                 [year |-> y, month |-> md.month, day |-> md.day])

\* now + timedelta(days=d, minutes=m) for d >= 0 and 0 <= m < 1440;
\* OverflowError beyond year MAXYEAR
PlusDelta(now, d, m) ==
    LET mins == now.hour * 60 + now.minute + m
        ord == ToOrdinal(now.year, now.month, now.day) + d + (mins \div 1440)
    IN  IF ord > MaxOrdinal THEN Raised
        ELSE With(FromOrdinal(ord), LAMBDA ymd :
                 Resolved(DateTime(ymd.year, ymd.month, ymd.day,
                                   (mins % 1440) \div 60, mins % 60, now.second)))

\* a replace that wraps an hour or minute out of range instead of raising
ReplaceTime_wrapping(t, hh, mm) ==
    Resolved(DateTime(t.year, t.month, t.day, hh % 24, mm % 60, 0))

\* datetime.replace(hour=hh, minute=mm, second=0, microsecond=0);
\* ValueError when hour or minute is out of range
ReplaceTime(t, hh, mm) ==
    IF hh > 23 \/ mm > 59 THEN Raised
    ELSE Resolved(DateTime(t.year, t.month, t.day, hh, mm, 0))

AllDigits(s) == s # <<>> /\ \A i \in 1..Len(s) : IsDigit(s[i])

\* int() of a text of decimal digits
RECURSIVE DigitsValue(_)
DigitsValue(s) ==
    IF s = <<>> THEN 0 ELSE DigitsValue(SubSeq(s, 1, Len(s) - 1)) * 10 + DigitVal(s[Len(s)])

TODAY == <<"t", "o", "d", "a", "y">>
TOMORROW == <<"t", "o", "m", "o", "r", "r", "o", "w">>

\* re.match(r"^<word>\s+(\d{1,2}):(\d{2})$", expr, re.IGNORECASE): the two
\* groups as numbers, or ok = FALSE
match_day_time(expr, word) ==
    With(IF Len(expr) > Len(word)
         THEN LStrip(SubSeq(expr, Len(word) + 1, Len(expr))) ELSE <<>>,
         LAMBDA rest :
    With(Find(rest, <<":">>, 1), LAMBDA colon :
        LET n == Len(word)
            hh == SubSeq(rest, 1, colon - 1)
            mm == SubSeq(rest, colon + 1, Len(rest))
        IN  IF /\ Len(expr) > n
               /\ Lower(SubSeq(expr, 1, n)) = word
               /\ IsSpace(expr[n + 1])
               /\ colon \in {2, 3}
               /\ AllDigits(hh)
               /\ Len(mm) = 2 /\ AllDigits(mm)
            THEN [ok |-> TRUE, hh |-> DigitsValue(hh), mm |-> DigitsValue(mm)]
            ELSE [ok |-> FALSE, hh |-> 0, mm |-> 0]))

\* strptime directives: the lengths, in the regex's order of preference, that
\* the directive or literal c can match of s at position p
CharIn(s, p, set) == p <= Len(s) /\ s[p] \in set
Dig(s, p) == p <= Len(s) /\ IsDigit(s[p])

RECURSIVE SpaceRun(_, _)
SpaceRun(s, p) == IF p <= Len(s) /\ IsSpace(s[p]) THEN 1 + SpaceRun(s, p + 1) ELSE 0

Opt(cond, len) == IF cond THEN <<len>> ELSE <<>>

directive_lengths(c, s, p) ==
    CASE c = "Y" -> Opt(Dig(s, p) /\ Dig(s, p + 1) /\ Dig(s, p + 2) /\ Dig(s, p + 3), 4)
      [] c = "m" -> Opt(CharIn(s, p, {"1"}) /\ CharIn(s, p + 1, {"0", "1", "2"}), 2)
                    \o Opt(CharIn(s, p, {"0"}) /\ Dig(s, p + 1) /\ s[p + 1] # "0", 2)
                    \o Opt(Dig(s, p) /\ s[p] # "0", 1)
      [] c = "d" -> Opt(CharIn(s, p, {"3"}) /\ CharIn(s, p + 1, {"0", "1"}), 2)
                    \o Opt(CharIn(s, p, {"1", "2"}) /\ Dig(s, p + 1), 2)
                    \o Opt(CharIn(s, p, {"0"}) /\ Dig(s, p + 1) /\ s[p + 1] # "0", 2)
                    \o Opt(Dig(s, p) /\ s[p] # "0", 1)
                    \o Opt(CharIn(s, p, {" "}) /\ Dig(s, p + 1) /\ s[p + 1] # "0", 2)
      [] c = "H" -> Opt(CharIn(s, p, {"2"}) /\ CharIn(s, p + 1, {"0", "1", "2", "3"}), 2)
                    \o Opt(CharIn(s, p, {"0", "1"}) /\ Dig(s, p + 1), 2)
                    \o Opt(Dig(s, p), 1)
      [] c = "M" -> Opt(CharIn(s, p, {"0", "1", "2", "3", "4", "5"}) /\ Dig(s, p + 1), 2)
                    \o Opt(Dig(s, p), 1)
      [] c = "S" -> Opt(CharIn(s, p, {"6"}) /\ CharIn(s, p + 1, {"0", "1"}), 2)
                    \o Opt(CharIn(s, p, {"0", "1", "2", "3", "4", "5"}) /\ Dig(s, p + 1), 2)
                    \o Opt(Dig(s, p), 1)
      [] c = " " -> [k \in 1..SpaceRun(s, p) |-> SpaceRun(s, p) + 1 - k]
      [] OTHER -> Opt(CharIn(s, p, {c}), 1)

\* the backtracking match of the format's regex from directive k at position
\* p with the alternatives from a on: ok, the end of the match and the texts
\* the directives matched
RECURSIVE format_match(_, _, _, _, _, _)
format_match(s, fmt, k, p, caps, a) ==
    IF k > Len(fmt) THEN [ok |-> TRUE, end |-> p, caps |-> caps]
    ELSE With(directive_lengths(fmt[k], s, p), LAMBDA alts :
             IF a > Len(alts) THEN [ok |-> FALSE, end |-> p, caps |-> caps]
             ELSE With(format_match(s, fmt, k + 1, p + alts[a],
                                    Append(caps, SubSeq(s, p, p + alts[a] - 1)), 1),
                       LAMBDA r :
                           IF r.ok THEN r ELSE format_match(s, fmt, k, p, caps, a + 1)))

FMT_MINUTES == <<"Y", "-", "m", "-", "d", " ", "H", ":", "M">>
FMT_SECONDS == FMT_MINUTES \o <<":", "S">>

\* datetime.strptime(expr, fmt) for the two formats of parse_at_expression
strptime(expr, fmt) ==
    With(format_match(expr, fmt, 1, 1, <<>>, 1), LAMBDA r :
        IF ~r.ok \/ r.end # Len(expr) + 1 THEN Raised
        ELSE LET y == DigitsValue(r.caps[1])
                 mo == DigitsValue(r.caps[3])
                 d == DigitsValue(LStrip(r.caps[5]))
                 h == DigitsValue(r.caps[7])
                 mi == DigitsValue(r.caps[9])
                 sec == IF Len(fmt) > 9 THEN DigitsValue(r.caps[11]) ELSE 0
             IN  IF y < MINYEAR \/ d > DaysInMonth(y, mo) \/ sec > 59 THEN Raised
                 ELSE Resolved(DateTime(y, mo, d, h, mi, sec)))

\* timedelta with hours=value read as minutes=value
unit_delta_hours_as_minutes(unit, value) ==
    CASE unit = "m" -> [days |-> value \div 1440, minutes |-> value % 1440]
      [] unit = "h" -> [days |-> value \div 1440, minutes |-> value % 1440]
      [] unit = "d" -> [days |-> value, minutes |-> 0]

\* timedelta(minutes=value), timedelta(hours=value) or timedelta(days=value)
\* as whole days and the minutes of the rest
unit_delta(unit, value) ==
    CASE unit = "m" -> [days |-> value \div 1440, minutes |-> value % 1440]
      [] unit = "h" -> [days |-> value \div 24, minutes |-> (value % 24) * 60]
      [] unit = "d" -> [days |-> value, minutes |-> 0]

\* the for loop over the two formats: the first that parses, else ValueError
absolute_time(expr) ==
    With(strptime(expr, FMT_MINUTES), LAMBDA minutes :
        IF ~minutes.err THEN minutes ELSE strptime(expr, FMT_SECONDS))

\* reminders_cli.parse_at_expression (calendar_cli.parse_at_expression is the
\* same function)
parse_at_expression(expr0, now) ==
    With(Strip(expr0), LAMBDA expr :
        LET n == Len(expr)
            relative == /\ n >= 3 /\ expr[1] = "+"
                        /\ AllDigits(SubSeq(expr, 2, n - 1))
                        /\ expr[n] \in {"m", "h", "d"}
        IN  IF relative
            THEN With(unit_delta(expr[n], DigitsValue(SubSeq(expr, 2, n - 1))),
                      LAMBDA delta : PlusDelta(now, delta.days, delta.minutes))
            ELSE With(match_day_time(expr, TODAY), LAMBDA today :
                 IF today.ok THEN ReplaceTime(now, today.hh, today.mm)
                 ELSE With(match_day_time(expr, TOMORROW), LAMBDA tomorrow :
                      IF tomorrow.ok
                      THEN With(PlusDelta(now, 1, 0), LAMBDA tmr :
                               IF tmr.err THEN Raised
                               ELSE ReplaceTime(tmr.t, tomorrow.hh, tomorrow.mm))
                      ELSE absolute_time(expr))))

\* calendar_cli.parse_duration: minutes, or err for the raised ValueError
parse_duration(expr0) ==
    IF ~Truthy(expr0) THEN [err |-> FALSE, minutes |-> 60]
    ELSE LET expr == Lower(Strip(expr0))
             n == Len(expr)
             num == SubSeq(expr, 1, n - 1)
         IN  IF n >= 2 /\ AllDigits(num) /\ expr[n] = "m"
             THEN [err |-> FALSE, minutes |-> DigitsValue(num)]
             ELSE IF n >= 2 /\ AllDigits(num) /\ expr[n] = "h"
             THEN [err |-> FALSE, minutes |-> DigitsValue(num) * 60]
             ELSE [err |-> TRUE, minutes |-> 0]

\* reminders_cli.parse_bool: val holds the result, err the raised ValueError
parse_bool(s) ==
    LET s_lower == Lower(Strip(s)) IN
    IF s_lower \in {<<"t", "r", "u", "e">>, <<"y", "e", "s">>, <<"1">>}
    THEN [err |-> FALSE, val |-> TRUE]
    ELSE IF s_lower \in {<<"f", "a", "l", "s", "e">>, <<"n", "o">>, <<"0">>}
    THEN [err |-> FALSE, val |-> FALSE]
    ELSE [err |-> TRUE, val |-> FALSE]

\* int(text): surrounding whitespace, an optional sign, digits with single
\* underscores between them; err is the raised ValueError
UnderscoresOk(s) ==
    /\ s # <<>> /\ s[1] # "_" /\ s[Len(s)] # "_"
    /\ \A i \in 1..Len(s) : IsDigit(s[i]) \/ s[i] = "_"
    /\ \A i \in 1..(Len(s) - 1) : ~(s[i] = "_" /\ s[i + 1] = "_")

to_int(text) ==
    LET s == Strip(text)
        signed == s # <<>> /\ s[1] \in {"+", "-"}
        body == IF signed THEN Tail(s) ELSE s
        digits == SelectSeq(body, LAMBDA c : c # "_")
    IN  IF UnderscoresOk(body)
        THEN [err |-> FALSE,
              val |-> IF signed /\ s[1] = "-" THEN 0 - DigitsValue(digits)
                      ELSE DigitsValue(digits)]
        ELSE [err |-> TRUE, val |-> 0]

(***************************************************************************)
(* Identity, ledger entries and the per-occurrence resolution of           *)
(* reminders_cli.process_file                                              *)
(***************************************************************************)
\* str(n) for an integer n
RECURSIVE NatText(_)
NatText(n) ==
    LET d == <<"0", "1", "2", "3", "4", "5", "6", "7", "8", "9">>[(n % 10) + 1] IN
    IF n < 10 THEN <<d>> ELSE Append(NatText(n \div 10), d)

IntText(n) == IF n < 0 THEN <<"-">> \o NatText(0 - n) ELSE NatText(n)

(***************************************************************************)
(* hashlib.sha1: SHA-1 of a text of up to 55 ASCII characters (one block). *)
(* A 32-bit word is a pair <<high, low>> of 16-bit halves.                 *)
(***************************************************************************)
\* the characters of codes 32 to 95 and of codes 97 to 126, in order
AsciiLow ==
    <<" ", "!", DQ, "#", "$", "%", "&", "'", "(", ")", "*", "+", ",", "-",
      ".", "/", "0", "1", "2", "3", "4", "5", "6", "7", "8", "9", ":", ";",
      "<", "=", ">", "?", "@", "A", "B", "C", "D", "E", "F", "G", "H", "I",
      "J", "K", "L", "M", "N", "O", "P", "Q", "R", "S", "T", "U", "V", "W",
      "X", "Y", "Z", "[", BS, "]", "^", "_">>
AsciiHigh ==
    <<"a", "b", "c", "d", "e", "f", "g", "h", "i", "j", "k", "l", "m", "n",
      "o", "p", "q", "r", "s", "t", "u", "v", "w", "x", "y", "z", "{", "|",
      "}", "~">>

\* str.encode("utf-8") of one ASCII character
Ord(c) ==
    IF c = NL THEN 10 ELSE IF c = TAB THEN 9
    ELSE IF \E i \in 1..Len(AsciiLow) : AsciiLow[i] = c
         THEN 31 + (CHOOSE i \in 1..Len(AsciiLow) : AsciiLow[i] = c)
    ELSE 96 + (CHOOSE i \in 1..Len(AsciiHigh) : AsciiHigh[i] = c)

Half == 65536

\* a & b on 16-bit halves, bit by bit
RECURSIVE BitAnd(_, _)
BitAnd(a, b) ==
    IF a = 0 \/ b = 0 THEN 0
    ELSE CHOOSE r \in {(p % 2) * (q % 2) + 2 * BitAnd(p \div 2, q \div 2) :
                           p \in {a}, q \in {b}} : TRUE

\* a ^ b
BitXor(a, b) == a + b - 2 * BitAnd(a, b)

\* x & y, x ^ y and ~x on words
WordAnd(x, y) ==
    CHOOSE r \in {<<BitAnd(p[1], q[1]), BitAnd(p[2], q[2])>> : p \in {x}, q \in {y}} : TRUE

WordXor(x, y) ==
    CHOOSE r \in {<<BitXor(p[1], q[1]), BitXor(p[2], q[2])>> : p \in {x}, q \in {y}} : TRUE

WordNot(x) == CHOOSE r \in {<<Half - 1 - p[1], Half - 1 - p[2]>> : p \in {x}} : TRUE

\* the sum of the words of ws modulo 2^32
RECURSIVE SumHalves(_, _)
SumHalves(ws, k) == IF ws = <<>> THEN 0 ELSE Head(ws)[k] + SumHalves(Tail(ws), k)

WordSum(ws) ==
    CHOOSE r \in {<<(SumHalves(ps, 1) + (SumHalves(ps, 2) \div Half)) % Half,
                    SumHalves(ps, 2) % Half>> : ps \in {ws}} : TRUE

RECURSIVE Pow2(_)
Pow2(n) == IF n = 0 THEN 1 ELSE 2 * Pow2(n - 1)

\* x rotated left by n bits, 0 < n < 32
RECURSIVE RotL(_, _)
RotL(x, n) ==
    CHOOSE r \in {IF n >= 16
                  THEN (IF n = 16 THEN <<p[2], p[1]>> ELSE RotL(<<p[2], p[1]>>, n - 16))
                  ELSE <<((p[1] * Pow2(n)) % Half) + (p[2] \div Pow2(16 - n)),
                         ((p[2] * Pow2(n)) % Half) + (p[1] \div Pow2(16 - n))>> :
                      p \in {x}} : TRUE

\* the padded block: the bytes, 0x80, zeros and the length in bits
PaddedBlock(bytes) ==
    [i \in 1..64 |->
        IF i <= Len(bytes) THEN bytes[i]
        ELSE IF i = Len(bytes) + 1 THEN 128
        ELSE IF i = 63 THEN (8 * Len(bytes)) \div 256
        ELSE IF i = 64 THEN (8 * Len(bytes)) % 256
        ELSE 0]

BlockWords(block) ==
    [t \in 1..16 |-> <<block[4 * t - 3] * 256 + block[4 * t - 2],
                       block[4 * t - 1] * 256 + block[4 * t]>>]

\* the message schedule extended to n words: up to the middle, then the rest
RECURSIVE Schedule(_, _)
Schedule(w, n) ==
    IF Len(w) >= n THEN w
    ELSE IF Len(w) + 1 = n
         THEN Append(w, RotL(WordXor(WordXor(w[n - 3], w[n - 8]),
                                     WordXor(w[n - 14], w[n - 16])), 1))
    ELSE CHOOSE r \in {Schedule(half, n) : half \in {Schedule(w, (Len(w) + n) \div 2)}} : TRUE

H0 == <<<<26437, 8961>>, <<61389, 43913>>, <<39098, 56574>>, <<4146, 21622>>, <<50130, 57840>>>>

RoundK(t) ==
    IF t <= 20 THEN <<23170, 31129>>
    ELSE IF t <= 40 THEN <<28377, 60321>>
    ELSE IF t <= 60 THEN <<36635, 48348>>
    ELSE <<51810, 49622>>

RoundF(t, b, c, d) ==
    IF t <= 20 THEN WordXor(WordAnd(b, c), WordAnd(WordNot(b), d))
    ELSE IF t > 40 /\ t <= 60
         THEN WordXor(WordXor(WordAnd(b, c), WordAnd(b, d)), WordAnd(c, d))
    ELSE WordXor(WordXor(b, c), d)

\* round t on the working words st = <<a, b, c, d, e>>
sha1_round(st, w, t) ==
    <<WordSum(<<RotL(st[1], 5), RoundF(t, st[2], st[3], st[4]), st[5], RoundK(t), w[t]>>),
      st[1], RotL(st[2], 30), st[3], st[4]>>

\* rounds lo to hi: the first half of them, then the second
RECURSIVE sha1_rounds(_, _, _, _)
sha1_rounds(st, w, lo, hi) ==
    IF lo > hi THEN st
    ELSE IF lo = hi THEN sha1_round(st, w, lo)
    ELSE CHOOSE r \in {sha1_rounds(first, w, (lo + hi) \div 2 + 1, hi) :
                          first \in {sha1_rounds(st, w, lo, (lo + hi) \div 2)}} : TRUE

\* the five words of the digest
sha1(text) ==
    CHOOSE h \in
        {[k \in 1..5 |-> WordSum(<<H0[k], st[k]>>)] :
            st \in {sha1_rounds(H0, w, 1, 80) :
                w \in {Schedule(w16, 80) :
                    w16 \in {BlockWords(PaddedBlock([i \in 1..Len(text) |-> Ord(text[i])]))}}}} : TRUE

HexDigits == <<"0", "1", "2", "3", "4", "5", "6", "7", "8", "9", "a", "b", "c", "d", "e", "f">>

Hex4(n) ==
    <<HexDigits[(n \div 4096) + 1], HexDigits[((n \div 256) % 16) + 1],
      HexDigits[((n \div 16) % 16) + 1], HexDigits[(n % 16) + 1]>>

\* hexdigest()[:12]
hexdigest12(text) ==
    CHOOSE digits \in {Hex4(h[1][1]) \o Hex4(h[1][2]) \o Hex4(h[2][1]) : h \in {sha1(text)}} : TRUE

(***************************************************************************)
(* Identity                                                                *)
(***************************************************************************)
\* reminders_cli._compute_stable_marker as a record: the explicit id, or the
\* path and the bytes given to the SHA-1 (digest_of).  The runs compare the
\* records; stable_marker_text gives the string the function returns.
_compute_stable_marker(abs_path, params) ==
    LET explicit_id == Get(params, ID_KEY)
        message == IF MSG_KEY \in DOMAIN params THEN params[MSG_KEY] ELSE <<>>
    IN  IF Truthy(explicit_id)
        THEN [kind |-> "id", path |-> <<>>, digest_of |-> explicit_id]
        ELSE [kind |-> "hash", path |-> abs_path,
              digest_of |-> abs_path \o <<NL>> \o message]

\* the returned string: f"@source:id:{explicit_id}" or
\* f"@source:{abs_path}#{digest}" with digest = h.hexdigest()[:12]
stable_marker_text(marker) ==
    IF marker.kind = "id"
    THEN <<"@", "s", "o", "u", "r", "c", "e", ":", "i", "d", ":">> \o marker.digest_of
    ELSE <<"@", "s", "o", "u", "r", "c", "e", ":">> \o marker.path \o <<"#">>
             \o hexdigest12(marker.digest_of)

\* datetime.isoformat(timespec="minutes"): the seconds are dropped
IsoMinutes(t) ==
    [year |-> t.year, month |-> t.month, day |-> t.day, hour |-> t.hour, minute |-> t.minute]

NoMarker == [kind |-> "none", path |-> <<>>, digest_of |-> <<>>]

\* Lines 532-548 of process_file for one occurrence: the parsed and resolved
\* fields, or err when one of the steps raised
FailedOccurrence ==
    [err |-> TRUE, name |-> <<>>, due |-> Raised.t, list_name |-> None,
     note |-> None, priority |-> <<>>, flagged |-> <<>>,
     marker |-> NoMarker, explicit_id |-> None]

resolve_occurrence(abs_path, params_text, now) ==
    With(parse_tag_params(params_text), LAMBDA parsed :
    IF parsed.err THEN FailedOccurrence
    ELSE LET params == parsed.data
             name == Get(params, MSG_KEY)
             at_expr == Get(params, AT_KEY)
             has_priority == PRIORITY_KEY \in DOMAIN params
             has_flagged == FLAGGED_KEY \in DOMAIN params
         IN
    IF ~Truthy(name) \/ ~Truthy(at_expr) THEN FailedOccurrence
    ELSE With(parse_at_expression(at_expr, now), LAMBDA due :
    IF due.err THEN FailedOccurrence
    ELSE With(IF has_priority THEN to_int(params[PRIORITY_KEY])
              ELSE [err |-> FALSE, val |-> 0], LAMBDA priority :
    IF priority.err THEN FailedOccurrence
    ELSE With(IF has_flagged THEN parse_bool(params[FLAGGED_KEY])
              ELSE [err |-> FALSE, val |-> FALSE], LAMBDA flagged :
    IF flagged.err THEN FailedOccurrence
    ELSE [err |-> FALSE, name |-> name, due |-> due.t,
          list_name |-> Get(params, LIST_KEY),
          note |-> Get(params, NOTE_KEY),
          priority |-> IF has_priority THEN IntText(priority.val) ELSE <<>>,
          flagged |-> IF has_flagged
                      THEN (IF flagged.val THEN <<"T", "r", "u", "e">>
                            ELSE <<"F", "a", "l", "s", "e">>)
                      ELSE <<>>,
          marker |-> _compute_stable_marker(abs_path, params),
          explicit_id |-> Get(params, ID_KEY)]))))

\* the entry of lines 568-580
ledger_entry(occ, abs_path, line_no, logged_at) ==
    [object |-> TRUE,
     id |-> OrEmpty(occ.explicit_id),
     message |-> occ.name,
     at |-> IsoMinutes(occ.due),
     list |-> OrEmpty(occ.list_name),
     note |-> OrEmpty(occ.note),
     priority |-> occ.priority,
     flagged |-> occ.flagged,
     source |-> occ.marker,
     file |-> abs_path,
     line |-> IntText(line_no),
     logged_at |-> logged_at]

(***************************************************************************)
(* The ledger file .cursor/sent_reminders.json.  kind is what the file     *)
(* holds: "absent" (no file), "notjson" (not valid JSON), "nonlist" (valid *)
(* JSON that is not a list) or "list" (a JSON list, its elements in        *)
(* entries; an element with object = FALSE is not a JSON object).          *)
(***************************************************************************)
AbsentLedger == [kind |-> "absent", entries |-> <<>>]
ListLedger(entries) == [kind |-> "list", entries |-> entries]
NonObject == [object |-> FALSE]

\* reminders_cli._load_sent_log
_load_sent_log(file) == IF file.kind = "list" THEN file.entries ELSE <<>>

\* _append_sent_log without its _load_sent_log(): the file is written with
\* the new entry alone
_append_sent_log_alone(file, entry) == ListLedger(<<entry>>)

\* reminders_cli._append_sent_log with _save_sent_log: the file afterwards
_append_sent_log(file, entry) == ListLedger(Append(_load_sent_log(file), entry))

\* line 528: e.get("id") raises AttributeError on an element that is no object
sent_ids_raises(sent_log) == \E i \in 1..Len(sent_log) : ~sent_log[i].object

sent_ids_of(sent_log) ==
    {sent_log[i].id : i \in {k \in 1..Len(sent_log) : sent_log[k].id # <<>>}}

(***************************************************************************)
(* calendar_cli.process_file and imessage_send.main: the per-occurrence    *)
(* resolution and the sent-marker log .meta/imessage_sent.log              *)
(***************************************************************************)
\* f"@source:{abs_path}:{line_no}"
source_marker(abs_path, line_no) ==
    <<"@", "s", "o", "u", "r", "c", "e", ":">> \o abs_path \o <<":">> \o NatText(line_no)

\* calendar_cli.process_file lines 298-308 and the end of line 235 for one
\* occurrence, or err when one of the steps raised.  The description text
\* (generate_event_description) has no influence on the control flow and is
\* not modelled.
FailedEvent ==
    [err |-> TRUE, name |-> <<>>, due |-> Raised.t, end |-> Raised.t,
     marker |-> NoMarker, explicit_id |-> None]

resolve_event(abs_path, line_no, params_text, now) ==
    With(parse_tag_params(params_text), LAMBDA parsed :
    IF parsed.err THEN FailedEvent
    ELSE LET params == parsed.data
             title == Get(params, MSG_KEY)
             at_expr == Get(params, AT_KEY)
         IN
    IF ~Truthy(title) \/ ~Truthy(at_expr) THEN FailedEvent
    ELSE With(parse_at_expression(at_expr, now), LAMBDA start :
    IF start.err THEN FailedEvent
    ELSE With(parse_duration(Get(params, DURATION_KEY)), LAMBDA duration :
    IF duration.err THEN FailedEvent
    ELSE With(PlusDelta(start.t, 0, duration.minutes), LAMBDA end :
    IF end.err THEN FailedEvent
    ELSE [err |-> FALSE, name |-> title, due |-> start.t, end |-> end.t,
          marker |-> source_marker(abs_path, line_no), explicit_id |-> None]))))

\* the file .meta/imessage_sent.log: whether it exists and its lines
AbsentLog == [exists |-> FALSE, lines |-> <<>>]
LogOf(lines) == [exists |-> TRUE, lines |-> lines]

\* imessage_send.ensure_meta_log: the file afterwards
ensure_meta_log(file) == IF file.exists THEN file ELSE LogOf(<<>>)

\* imessage_send.load_sent_markers
load_sent_markers(file) ==
    {Strip(file.lines[i]) : i \in {k \in 1..Len(file.lines) : Strip(file.lines[k]) # <<>>}}

\* imessage_send.append_sent_marker: the file afterwards
append_sent_marker(file, marker) == LogOf(Append(file.lines, marker))

\* imessage_send.main lines 193-205, the loop over tags[i..]: the to_send
\* list, what the loop reported, and err when parse_tag_params raised (the
\* loop has no try block)
RECURSIVE collect_to_send(_, _, _, _, _, _)
collect_to_send(tag_list, i, abs_path, sent_markers, acc, seen) ==
    IF i > Len(tag_list) THEN [err |-> FALSE, to_send |-> acc, seen |-> seen]
    ELSE With(parse_tag_params(tag_list[i].params_text), LAMBDA parsed :
         With(source_marker(abs_path, tag_list[i].line_no), LAMBDA marker :
         LET tag == tag_list[i]
             to_handle == Get(parsed.data, TO_KEY)
             message == Get(parsed.data, MSG_KEY)
             item == [idx |-> i, line_no |-> tag.line_no, marker |-> marker,
                      to |-> to_handle, message |-> message]
             note(kind) == Append(seen, [idx |-> i, line_no |-> tag.line_no, kind |-> kind])
         IN  IF parsed.err
             THEN [err |-> TRUE, to_send |-> acc, seen |-> note("raise")]
             ELSE IF ~Truthy(to_handle) \/ ~Truthy(message)
             THEN collect_to_send(tag_list, i + 1, abs_path, sent_markers, acc, note("invalid"))
             ELSE IF marker \in sent_markers
             THEN collect_to_send(tag_list, i + 1, abs_path, sent_markers, acc, note("skip"))
             ELSE collect_to_send(tag_list, i + 1, abs_path, sent_markers,
                                  Append(acc, item), note("queue"))))

(***************************************************************************)
(* Input files.  A file is its absolute path and its text.                 *)
(***************************************************************************)
PATH_A == <<"/", "w", "/", "a", ".", "m", "d">>
PATH_B == <<"/", "w", "/", "b", ".", "m", "d">>

CLOSE == <<")">>
MSG_A == <<"m", "e", "s", "s", "a", "g", "e", "=", DQ, "a", DQ>>
MSG_C == <<"m", "e", "s", "s", "a", "g", "e", "=", DQ, "c", DQ>>
POS_B == <<DQ, "b", DQ>>
AT_1H == <<",", " ", "a", "t", "=", DQ, "+", "1", "h", DQ>>
AT_TODAY == <<",", " ", "a", "t", "=", DQ, "t", "o", "d", "a", "y", " ", "0", "9", ":", "3", "0", DQ>>
ID_X == <<",", " ", "i", "d", "=", DQ, "x", DQ>>

\* @reminder(message="a", at="+1h")
R_A == REMINDER_OPENER \o MSG_A \o AT_1H \o CLOSE
\* @reminder(message="a", at="+1h", id="x")
R_X == REMINDER_OPENER \o MSG_A \o AT_1H \o ID_X \o CLOSE
\* @reminder("b", at="today 09:30", id="x")
R_XB == REMINDER_OPENER \o POS_B \o AT_TODAY \o ID_X \o CLOSE
\* @reminder(message="c")                         (no at)
R_NOAT == REMINDER_OPENER \o MSG_C \o CLOSE
\* @reminder(at="+1h")                            (no message)
R_NOMSG == REMINDER_OPENER \o Tail(Tail(AT_1H)) \o CLOSE
\* @reminder(message="c", at)                     (a segment without "=")
R_MALFORMED == REMINDER_OPENER \o MSG_C \o <<",", " ", "a", "t">> \o CLOSE
\* @reminder(message="c", at="+1h", priority=high)
R_BADPRIORITY == REMINDER_OPENER \o MSG_C \o AT_1H
                     \o <<",", " ", "p", "r", "i", "o", "r", "i", "t", "y", "=", "h", "i", "g", "h">> \o CLOSE
\* @reminder(message="c", at="+1h", flagged=maybe)
R_BADFLAGGED == REMINDER_OPENER \o MSG_C \o AT_1H
                    \o <<",", " ", "f", "l", "a", "g", "g", "e", "d", "=", "m", "a", "y", "b", "e">> \o CLOSE
\* @reminder(message="c", at="soon")
R_BADAT == REMINDER_OPENER \o MSG_C \o <<",", " ", "a", "t", "=", DQ, "s", "o", "o", "n", DQ>> \o CLOSE
\* @calendar(message="a", at="+1h")
K_A == CALENDAR_OPENER \o MSG_A \o AT_1H \o CLOSE
\* @calendar("b", at="today 09:30", duration="30m")
K_B == CALENDAR_OPENER \o POS_B \o AT_TODAY
           \o <<",", " ", "d", "u", "r", "a", "t", "i", "o", "n", "=", DQ, "3", "0", "m", DQ>> \o CLOSE
\* @calendar(message="c")                         (no at)
K_NOAT == CALENDAR_OPENER \o MSG_C \o CLOSE
\* @calendar(message="c", at)                     (a segment without "=")
K_MALFORMED == CALENDAR_OPENER \o MSG_C \o <<",", " ", "a", "t">> \o CLOSE
\* @calendar(message="c", at="+1h", duration=long)
K_BADDURATION == CALENDAR_OPENER \o MSG_C \o AT_1H
                     \o <<",", " ", "d", "u", "r", "a", "t", "i", "o", "n", "=", "l", "o", "n", "g">> \o CLOSE
\* @calendar(message="c", at="soon")
K_BADAT == CALENDAR_OPENER \o MSG_C \o <<",", " ", "a", "t", "=", DQ, "s", "o", "o", "n", DQ>> \o CLOSE

TO_1 == <<"t", "o", "=", DQ, "+", "1", DQ, ",", " ">>
\* @imessage(to="+1", message="a")
I_A == IMESSAGE_OPENER \o TO_1 \o MSG_A \o CLOSE
\* @imessage(to="+1", message="c")
I_C == IMESSAGE_OPENER \o TO_1 \o MSG_C \o CLOSE
\* @imessage(message="c")                         (no to)
I_NOTO == IMESSAGE_OPENER \o MSG_C \o CLOSE
\* @imessage(to="+1", message="c", now)           (a segment without "=")
I_MALFORMED == IMESSAGE_OPENER \o TO_1 \o MSG_C \o <<",", " ", "n", "o", "w">> \o CLOSE

\* a line without a tag
PLAIN == <<"-", " ", "n", "o", "t", "e", "s">>

\* "\n".join(lines)
RECURSIVE JoinLines(_)
JoinLines(lines) ==
    IF lines = <<>> THEN <<>>
    ELSE IF Len(lines) = 1 THEN lines[1]
    ELSE lines[1] \o <<NL>> \o JoinLines(Tail(lines))

(***************************************************************************)
(* State                                                                   *)
(***************************************************************************)
VARIABLES
    scenario,       \* "single": one run over the wide inputs; "rerun": several runs;
                    \* "at": one run over a file of one tag, for every at-expression;
                    \* "edits": several runs of imessage_send over a file that is
                    \* edited between them;
                    \* "call": one call of a function on its own
    tool,           \* the program whose runs the behaviour follows
    pc,             \* "idle", "loop", "send", "done" (returned), "crashed" (uncaught exception)
    history,        \* the runs so far: arguments, clock and persisted stores at the start
    tags,           \* process_file / main: the scanned (line_no, params_text) list
    idx,            \* position of the for loop in tags (in to_send for "send")
    sent_ids,       \* process_file: the skip-set built at line 528
    ledger,         \* the file .cursor/sent_reminders.json
    sent_log_file,  \* the file .meta/imessage_sent.log
    to_send,        \* imessage_send.main: the (marker, to, message) list
    trace,          \* what the runs did: executor calls, skips, reported errors
    clock,          \* the wall clock
    events,         \* the events Calendar.app holds
    subject,        \* "call": the function called and its arguments
    answer          \* "call": what the call returned, Pending before it

vars == <<scenario, tool, pc, history, tags, idx, sent_ids, ledger, sent_log_file,
          to_send, trace, clock, events, subject, answer>>

\* the variables of the runs
run_vars == <<scenario, tool, pc, history, tags, idx, sent_ids, ledger, sent_log_file,
              to_send, trace, clock, events>>

\* what a call returned
Pending == [returned |-> FALSE]
Returned(value) == [returned |-> TRUE, value |-> value]
NoSubject == [fn |-> "none"]

\* the number of runs of a "rerun" behaviour
MaxRuns == 3

Tools == {"reminders", "calendar", "imessage"}
ExecutorResults == {"ok", "error", "timeout"}

Epoch == DateTime(2025, 1, 31, 23, 30, 0)

\* the clock a minute later
Tick(t) == PlusDelta(t, 0, 1).t

\* an entry a run before Epoch recorded
OldEntry ==
    [object |-> TRUE, id |-> <<"x">>, message |-> <<"a">>,
     at |-> IsoMinutes(Epoch), list |-> <<>>, note |-> <<>>, priority |-> <<>>,
     flagged |-> <<>>, source |-> [kind |-> "id", path |-> <<>>, digest_of |-> <<"x">>],
     file |-> PATH_A, line |-> <<"1">>, logged_at |-> Epoch]

InitialLedgers ==
    {AbsentLedger,
     [kind |-> "notjson", entries |-> <<>>],
     [kind |-> "nonlist", entries |-> <<>>],
     ListLedger(<<>>),
     ListLedger(<<NonObject>>),
     ListLedger(<<OldEntry>>)}

\* a log a run before Epoch wrote: line 1 of PATH_A was sent
InitialLogs == {AbsentLog, LogOf(<<>>), LogOf(<<source_marker(PATH_A, 1)>>)}

File(path, lines) == [path |-> path, text |-> JoinLines(lines)]

\* the wide inputs of a single run: no tag, valid tags with and without an
\* id, two tags on one line, and every kind of failing occurrence before a
\* valid one
ReminderFilesSingle ==
    {File(PATH_A, <<>>), File(PATH_A, <<PLAIN>>),
     File(PATH_A, <<R_A>>), File(PATH_B, <<R_X, R_A>>),
     File(PATH_A, <<R_X \o <<" ">> \o R_XB>>),
     File(PATH_A, <<R_NOAT, R_X>>), File(PATH_A, <<R_NOMSG, R_A>>),
     File(PATH_A, <<R_MALFORMED, PLAIN, R_X>>), File(PATH_A, <<R_BADPRIORITY, R_X>>),
     File(PATH_A, <<R_BADFLAGGED, R_A>>), File(PATH_A, <<R_BADAT, R_X>>)}

CalendarFilesSingle ==
    {File(PATH_A, <<PLAIN>>), File(PATH_A, <<K_A, K_B>>),
     File(PATH_A, <<K_NOAT, K_A>>), File(PATH_A, <<K_MALFORMED, PLAIN, K_B>>),
     File(PATH_A, <<K_BADDURATION, K_A>>), File(PATH_A, <<K_BADAT, K_B>>)}

SendFilesSingle ==
    {File(PATH_A, <<PLAIN>>), File(PATH_A, <<I_A>>), File(PATH_A, <<I_A, I_C>>),
     File(PATH_A, <<I_NOTO, I_A>>), File(PATH_A, <<I_MALFORMED, I_A>>),
     File(PATH_A, <<I_A, I_MALFORMED>>)}

\* the inputs of repeated runs: a tag with an id; a tag without an id
\* followed by the same id in another file, on another line, with another
\* message; for imessage_send a file and the same file with a line inserted
\* above its tag
ReminderFilesRerun == {File(PATH_A, <<R_X>>), File(PATH_B, <<R_A, R_XB>>)}
CalendarFilesRerun == {File(PATH_A, <<K_A>>)}
SendFilesRerun == {File(PATH_A, <<I_A>>), File(PATH_A, <<PLAIN, I_A>>)}

ReminderFiles == IF scenario = "single" THEN ReminderFilesSingle ELSE ReminderFilesRerun
CalendarFiles == IF scenario = "single" THEN CalendarFilesSingle ELSE CalendarFilesRerun
SendFiles == IF scenario = "single" THEN SendFilesSingle ELSE SendFilesRerun

\* what the executor answers: repeated runs do not tell a timeout from an
\* error
Results == IF scenario = "rerun" THEN {"ok", "error"} ELSE ExecutorResults

RunBudget == IF scenario \in {"rerun", "edits"} THEN MaxRuns ELSE 1

cur == history[Len(history)]

Run(file, dry_run, ignore_sent_log, reset_log, now) ==
    [path |-> file.path, text |-> file.text, dry_run |-> dry_run,
     ignore_sent_log |-> ignore_sent_log, reset_log |-> reset_log,
     now |-> now, ledger |-> ledger, sent_log_file |-> sent_log_file]

Event(kind, k, line_no, occ, result, reported) ==
    [run |-> Len(history), kind |-> kind, idx |-> k, line_no |-> line_no,
     id |-> OrEmpty(occ.explicit_id), name |-> occ.name, marker |-> occ.marker,
     result |-> result, reported |-> reported]

InitOf(sc) ==
    /\ scenario = sc
    /\ tool \in Tools
    /\ pc = "idle"
    /\ history = <<>>
    /\ tags = <<>>
    /\ idx = 0
    /\ sent_ids = {}
    /\ ledger \in (IF tool = "reminders" /\ sc = "single" THEN InitialLedgers
                   ELSE {AbsentLedger})
    /\ sent_log_file \in (IF tool = "imessage" /\ sc = "single" THEN InitialLogs
                          ELSE {AbsentLog})
    /\ to_send = <<>>
    /\ trace = <<>>
    /\ clock = Epoch
    /\ events = <<>>
    /\ subject = NoSubject
    /\ answer = Pending

Init == InitOf("single")
InitRuns == InitOf("rerun")

(***************************************************************************)
(* reminders_cli.process_file                                              *)
(***************************************************************************)
\* line 520 without its "and not dry_run"
reset_applies_in_dry_run(reset_log, dry_run) == reset_log

\* line 520: the ledger file is removed
reset_applies(reset_log, dry_run) == reset_log /\ ~dry_run

\* line 527: the entries the skip-set is built from; file is the ledger file
\* after line 520
sent_log_of(reset_log, file) == IF reset_log THEN <<>> ELSE _load_sent_log(file)

\* line 550 without its membership test in sent_ids, with the test always
\* failing and with the test always succeeding
skip_applies_never(explicit_id, ignore_sent_log, ids) == FALSE
skip_applies_any_id(explicit_id, ignore_sent_log, ids) ==
    Truthy(explicit_id) /\ ~ignore_sent_log

\* line 550: the occurrence is skipped
skip_applies(explicit_id, ignore_sent_log, ids) ==
    Truthy(explicit_id) /\ ~ignore_sent_log /\ explicit_id \in ids

\* line 366: create_reminder returns before the executor is run
executor_invoked(dry_run) == ~dry_run

\* line 567 without its "if not dry_run"
entry_recorded_always(dry_run) == TRUE

\* line 567: the entry is appended
entry_recorded(dry_run) == ~dry_run

\* the for loop of line 530 without the try block: an occurrence that raises
\* ends the loop
loop_continues_until_raise(k, n, raised) ==
    IF k < n /\ ~raised THEN [pc |-> "loop", idx |-> k + 1] ELSE [pc |-> "done", idx |-> k + 1]

\* the for loop of line 530 after the occurrence at position k of n was
\* handled; raised says that its try block raised (caught at line 582)
loop_continues(k, n, raised) ==
    IF k < n THEN [pc |-> "loop", idx |-> k + 1] ELSE [pc |-> "done", idx |-> k + 1]

\* lines 510-529: scan, reset, load the ledger, build the skip-set
process_file_start(file, dry_run, ignore_sent_log, reset_log) ==
    /\ tool = "reminders"
    /\ pc \in {"idle", "done", "crashed"}
    /\ Len(history) < RunBudget
    /\ \E found \in {find_tags_in_text(file.text)} :
       LET kept == IF reset_applies(reset_log, dry_run) THEN AbsentLedger ELSE ledger
           sent_log == sent_log_of(reset_log, kept)
       IN  /\ clock' = Tick(clock)
           /\ history' = Append(history,
                  Run(file, dry_run, ignore_sent_log, reset_log, clock'))
           /\ tags' = found
           /\ IF found = <<>>
              THEN pc' = "done" /\ idx' = 0 /\ sent_ids' = {} /\ ledger' = ledger
              ELSE /\ ledger' = kept
                   /\ IF sent_ids_raises(sent_log)
                      THEN pc' = "crashed" /\ idx' = 0 /\ sent_ids' = {}
                      ELSE pc' = "loop" /\ idx' = 1 /\ sent_ids' = sent_ids_of(sent_log)
    /\ UNCHANGED <<scenario, tool, sent_log_file, to_send, trace, events, subject, answer>>

\* lines 530-584: the body of the for loop for tags[idx]; result is what the
\* executor (osascript under the timeout) answers if it is run
process_file_step(result) ==
    /\ tool = "reminders"
    /\ pc = "loop"
    /\ \E occ \in {resolve_occurrence(cur.path, tags[idx].params_text, cur.now)} :
       LET tag == tags[idx]
           skipped == skip_applies(occ.explicit_id, cur.ignore_sent_log, sent_ids)
           invoked == ~occ.err /\ ~skipped /\ executor_invoked(cur.dry_run)
           raised == occ.err \/ (invoked /\ result # "ok")
           recorded == ~occ.err /\ ~skipped /\ ~raised /\ entry_recorded(cur.dry_run)
           next == loop_continues(idx, Len(tags), raised)
           reported == IF raised THEN tag.line_no ELSE 0
       IN  /\ invoked \/ result = "ok"
           /\ trace' = Append(trace,
                  IF occ.err THEN Event("error", idx, tag.line_no, occ, "none", reported)
                  ELSE IF skipped THEN Event("skip", idx, tag.line_no, occ, "none", reported)
                  ELSE IF invoked THEN Event("call", idx, tag.line_no, occ, result, reported)
                  ELSE Event("describe", idx, tag.line_no, occ, "none", reported))
           /\ ledger' = IF recorded
                        THEN _append_sent_log(ledger, ledger_entry(occ, cur.path, tag.line_no, clock))
                        ELSE ledger
           /\ pc' = next.pc
           /\ idx' = next.idx
    /\ UNCHANGED <<scenario, tool, history, tags, sent_ids, sent_log_file, to_send, clock, events, subject, answer>>

(***************************************************************************)
(* calendar_cli.process_file                                               *)
(***************************************************************************)
\* line 253 of create_or_update_event: the return before the executor is run
event_executor_invoked(dry_run) == ~dry_run

\* calendar_cli.build_applescript_for_event: the one statement of the script,
\* "make new event at end with properties {summary, ..., description}", the
\* description ending with the marker.  The script has no statement that
\* looks an event up.
build_applescript_for_event(title, marker) ==
    [verb |-> "make new event", summary |-> title, marker |-> marker]

\* Calendar.app running the script: the events afterwards
run_event_script(held, script) ==
    Append(held, [summary |-> script.summary, marker |-> script.marker])

\* the for loop of line 296 after the occurrence at position k of n was
\* handled; raised says that its try block raised (caught at line 322)
event_loop_continues(k, n, raised) ==
    IF k < n THEN [pc |-> "loop", idx |-> k + 1] ELSE [pc |-> "done", idx |-> k + 1]

\* lines 286-295: scan, return when there is no tag, read the clock
calendar_process_file_start(file, dry_run) ==
    /\ tool = "calendar"
    /\ pc \in {"idle", "done", "crashed"}
    /\ Len(history) < RunBudget
    /\ \E found \in {find_calendar_tags_in_text(file.text)} :
           /\ clock' = Tick(clock)
           /\ history' = Append(history, Run(file, dry_run, FALSE, FALSE, clock'))
           /\ tags' = found
           /\ IF found = <<>> THEN pc' = "done" /\ idx' = 0 ELSE pc' = "loop" /\ idx' = 1
    /\ UNCHANGED <<scenario, tool, sent_ids, ledger, sent_log_file, to_send, trace, events, subject, answer>>

\* lines 296-324: the body of the for loop for tags[idx]
calendar_process_file_step(result) ==
    /\ tool = "calendar"
    /\ pc = "loop"
    /\ \E occ \in {resolve_event(cur.path, tags[idx].line_no, tags[idx].params_text, cur.now)} :
       LET tag == tags[idx]
           invoked == ~occ.err /\ event_executor_invoked(cur.dry_run)
           raised == occ.err \/ (invoked /\ result # "ok")
           next == event_loop_continues(idx, Len(tags), raised)
           reported == IF raised THEN tag.line_no ELSE 0
       IN  /\ invoked \/ result = "ok"
           /\ trace' = Append(trace,
                  IF occ.err THEN Event("error", idx, tag.line_no, occ, "none", reported)
                  ELSE IF invoked THEN Event("call", idx, tag.line_no, occ, result, reported)
                  ELSE Event("describe", idx, tag.line_no, occ, "none", reported))
           /\ \E ran \in (IF ~invoked THEN {FALSE}
                          ELSE IF result = "timeout" THEN BOOLEAN ELSE {result = "ok"}) :
                  events' = IF ran
                            THEN run_event_script(events,
                                     build_applescript_for_event(occ.name, occ.marker))
                            ELSE events
           /\ pc' = next.pc
           /\ idx' = next.idx
    /\ UNCHANGED <<scenario, tool, history, tags, sent_ids, ledger, sent_log_file, to_send, clock, subject, answer>>

(***************************************************************************)
(* imessage_send.main                                                      *)
(***************************************************************************)
\* line 188: the log is emptied
log_reset_applies(reset_log, yes) == reset_log

\* line 214: the message is sent and the marker appended
send_applies(yes) == yes

\* lines 211-218 after the item at position k of n was handled; raised says
\* that send_imessage raised (the loop has no try block)
send_loop_continues(k, n, raised) ==
    IF raised THEN [pc |-> "crashed", idx |-> k]
    ELSE IF k < n THEN [pc |-> "send", idx |-> k + 1]
    ELSE [pc |-> "done", idx |-> k + 1]

\* lines 180-209: scan, open and reset the log, load the markers, collect
\* the to_send list
main_start(file, yes, reset_log) ==
    /\ tool = "imessage"
    /\ pc \in {"idle", "done", "crashed"}
    /\ Len(history) < RunBudget
    /\ \E found \in {send_find_tags_in_text(file.text)} :
       \E log \in {IF log_reset_applies(reset_log, yes) THEN LogOf(<<>>)
                   ELSE ensure_meta_log(sent_log_file)} :
       \E got \in {collect_to_send(found, 1, file.path, load_sent_markers(log), <<>>, <<>>)} :
       LET told == SelectSeq(got.seen, LAMBDA e : e.kind # "queue")
           failed == [explicit_id |-> None, name |-> <<>>, marker |-> NoMarker]
       IN  /\ clock' = Tick(clock)
           /\ history' = Append(history, Run(file, ~yes, FALSE, reset_log, clock'))
           /\ tags' = found
           /\ idx' = IF found # <<>> /\ ~got.err /\ got.to_send # <<>> THEN 1 ELSE 0
           /\ IF found = <<>>
              THEN /\ pc' = "done"
                   /\ UNCHANGED <<sent_log_file, to_send, trace>>
              ELSE /\ sent_log_file' = log
                   /\ to_send' = got.to_send
                   /\ trace' = trace \o
                          [i \in 1..Len(told) |->
                              [Event(told[i].kind, told[i].idx, told[i].line_no, failed, "none",
                                     IF told[i].kind = "invalid" THEN told[i].line_no ELSE 0)
                               EXCEPT !.run = Len(history) + 1]]
                   /\ pc' = IF got.err THEN "crashed"
                            ELSE IF got.to_send = <<>> THEN "done" ELSE "send"
    /\ UNCHANGED <<scenario, tool, sent_ids, ledger, events, subject, answer>>

\* lines 211-218: the body of the for loop for to_send[idx]
main_send(result) ==
    /\ tool = "imessage"
    /\ pc = "send"
    /\ LET item == to_send[idx]
           occ == [explicit_id |-> None, name |-> item.message, marker |-> item.marker]
           invoked == send_applies(~cur.dry_run)
           raised == invoked /\ result # "ok"
           next == send_loop_continues(idx, Len(to_send), raised)
       IN  /\ invoked \/ result = "ok"
           /\ trace' = Append(trace,
                  IF invoked THEN Event("call", item.idx, item.line_no, occ, result, 0)
                  ELSE Event("describe", item.idx, item.line_no, occ, "none", 0))
           /\ sent_log_file' = IF invoked /\ ~raised
                               THEN append_sent_marker(sent_log_file, item.marker)
                               ELSE sent_log_file
           /\ pc' = next.pc
           /\ idx' = next.idx
    /\ UNCHANGED <<scenario, tool, history, tags, sent_ids, ledger, to_send, clock, events, subject, answer>>

Next ==
    \/ \E file \in ReminderFiles, dry_run \in BOOLEAN, ignore_sent_log \in BOOLEAN,
          reset_log \in BOOLEAN :
           process_file_start(file, dry_run, ignore_sent_log, reset_log)
    \/ \E result \in Results : process_file_step(result)
    \/ \E file \in CalendarFiles, dry_run \in BOOLEAN :
           calendar_process_file_start(file, dry_run)
    \/ \E result \in Results : calendar_process_file_step(result)
    \/ \E file \in SendFiles, yes \in BOOLEAN, reset_log \in BOOLEAN :
           main_start(file, yes, reset_log)
    \/ \E result \in Results : main_send(result)

Spec == Init /\ [][Next]_vars
SpecRuns == InitRuns /\ [][Next]_vars

(***************************************************************************)
(* Single calls: the scanners, the parser, the temporal resolver and the   *)
(* identity function called on their own, the arguments drawn from bounded *)
(* sets.                                                                   *)
(***************************************************************************)
\* the texts over the characters of chars, up to length n
Texts(chars, n) == UNION {[1..k -> chars] : k \in 0..n}

\* the state before a call of one of the subjects
InitCall(subjects) ==
    /\ scenario = "call"
    /\ tool = "none"
    /\ pc = "idle"
    /\ history = <<>>
    /\ tags = <<>>
    /\ idx = 0
    /\ sent_ids = {}
    /\ ledger = AbsentLedger
    /\ sent_log_file = AbsentLog
    /\ to_send = <<>>
    /\ trace = <<>>
    /\ clock = Epoch
    /\ events = <<>>
    /\ subject \in subjects
    /\ answer = Pending

\* the scanned occurrences of a text, each with what parse_tag_params makes
\* of its parameter text (process_file and main parse every scanned tag)
scan_and_parse(found) ==
    [k \in 1..Len(found) |->
        [line_no |-> found[k].line_no, params_text |-> found[k].params_text,
         parsed |-> parse_tag_params(found[k].params_text)]]

\* the length of the message bodies written into scanned lines
MaxBody == 3

\* message="<body>"
MessageField(body) == <<"m", "e", "s", "s", "a", "g", "e", "=">> \o <<DQ>> \o body \o <<DQ>>

\* one line  @calendar(message="<body>", at="+1h")  or
\* @imessage(to="+1", message="<body>")  for every body of letters, blanks,
\* commas and parentheses
PatternSubjects ==
    {[fn |-> "find_calendar_tags_in_text", body |-> body,
      text |-> CALENDAR_OPENER \o MessageField(body) \o AT_1H \o CLOSE] :
         body \in Texts({"a", " ", ",", "(", ")"}, MaxBody)}
    \cup
    {[fn |-> "send_find_tags_in_text", body |-> body,
      text |-> IMESSAGE_OPENER \o TO_1 \o MessageField(body) \o CLOSE] :
         body \in Texts({"a", " ", ",", "(", ")"}, MaxBody)}

InitPattern == InitCall(PatternSubjects)

\* calendar_cli.find_calendar_tags_in_text on the text, then parse_tag_params
call_find_calendar_tags_in_text ==
    /\ subject.fn = "find_calendar_tags_in_text"
    /\ ~answer.returned
    /\ answer' = Returned(scan_and_parse(find_calendar_tags_in_text(subject.text)))
    /\ UNCHANGED <<run_vars, subject>>

\* imessage_send.find_tags_in_text on the text, then parse_tag_params
call_send_find_tags_in_text ==
    /\ subject.fn = "send_find_tags_in_text"
    /\ ~answer.returned
    /\ answer' = Returned(scan_and_parse(send_find_tags_in_text(subject.text)))
    /\ UNCHANGED <<run_vars, subject>>

NextPattern == call_find_calendar_tags_in_text \/ call_send_find_tags_in_text

SpecPattern == InitPattern /\ [][NextPattern]_vars

\* the length of the text written after the opener of a scanned line
MaxTail == 4

\* one line  @reminder(<tail>  for every tail of quotes, backslashes,
\* parentheses, commas and letters
ExtractSubjects ==
    {[fn |-> "_extract_tag_params_from_line", tail |-> tail, text |-> REMINDER_OPENER \o tail] :
         tail \in Texts({DQ, BS, "(", ")", ",", "a"}, MaxTail)}

InitExtract == InitCall(ExtractSubjects)

\* reminders_cli._extract_tag_params_from_line on the line
call__extract_tag_params_from_line ==
    /\ subject.fn = "_extract_tag_params_from_line"
    /\ ~answer.returned
    /\ answer' = Returned(_extract_tag_params_from_line(subject.text))
    /\ UNCHANGED <<run_vars, subject>>

NextExtract == call__extract_tag_params_from_line

SpecExtract == InitExtract /\ [][NextExtract]_vars

\* the number of characters and escape sequences of a written value
MaxTokens == 3

\* the pieces a quoted value is written from: a letter and the four escape
\* sequences
ValueTokens == {"a", "quote", "backslash", "newline", "tab"}

\* the piece as it is written in the raw parameter text
TokenWritten(tok) ==
    CASE tok = "quote" -> <<BS, DQ>>
      [] tok = "backslash" -> <<BS, BS>>
      [] tok = "newline" -> <<BS, "n">>
      [] tok = "tab" -> <<BS, "t">>
      [] OTHER -> <<tok>>

\* the written pieces one after the other
RECURSIVE Written(_)
Written(tokens) ==
    IF tokens = <<>> THEN <<>> ELSE TokenWritten(Head(tokens)) \o Written(Tail(tokens))

\* the raw parameter text  message="<pieces>"  for every quoted value of up
\* to MaxTokens pieces, and  message=<bare>  for every unquoted value of
\* letters, digits and blanks
ParseSubjects ==
    {[fn |-> "parse_tag_params", quoted |-> TRUE, tokens |-> tokens,
      text |-> MessageField(Written(tokens))] : tokens \in Texts(ValueTokens, MaxTokens)}
    \cup
    {[fn |-> "parse_tag_params", quoted |-> FALSE, tokens |-> tokens,
      text |-> <<"m", "e", "s", "s", "a", "g", "e", "=">> \o tokens] :
         tokens \in Texts({"a", "1", " "}, MaxTokens)}

InitParse == InitCall(ParseSubjects)

\* reminders_cli.parse_tag_params on the raw parameter text
call_parse_tag_params ==
    /\ subject.fn = "parse_tag_params"
    /\ ~answer.returned
    /\ answer' = Returned(parse_tag_params(subject.text))
    /\ UNCHANGED <<run_vars, subject>>

NextParse == call_parse_tag_params

SpecParse == InitParse /\ [][NextParse]_vars

\* the length of the messages written into a tag
MaxMessage == 3

\* the message written with each backslash doubled and a backslash put
\* before each double quote
RECURSIVE escape_message(_)
escape_message(m) ==
    IF m = <<>> THEN <<>>
    ELSE (IF Head(m) \in {BS, DQ} THEN <<BS, Head(m)>> ELSE <<Head(m)>>)
             \o escape_message(Tail(m))

\* one line  @reminder(message="<escaped message>")  for every message of
\* quotes, backslashes, commas, parentheses and the letters n and t
RoundTripSubjects ==
    {[fn |-> "find_tags_in_text", body |-> body,
      text |-> REMINDER_OPENER \o MessageField(escape_message(body)) \o CLOSE] :
         body \in Texts({DQ, BS, ",", "(", ")", "n", "t"}, MaxMessage)}

InitRoundTrip == InitCall(RoundTripSubjects)

\* reminders_cli.find_tags_in_text on the text (_extract_tag_params_from_line
\* on its line), then parse_tag_params
call_find_tags_in_text ==
    /\ subject.fn = "find_tags_in_text"
    /\ ~answer.returned
    /\ answer' = Returned(scan_and_parse(find_tags_in_text(subject.text)))
    /\ UNCHANGED <<run_vars, subject>>

NextRoundTrip == call_find_tags_in_text

SpecRoundTrip == InitRoundTrip /\ [][NextRoundTrip]_vars

\* the largest N of a written "+<N>m", "+<N>h" or "+<N>d"
MaxCount == 100

\* str() of a number, and a number written with two or four digits
DigitChar(d) == <<"0", "1", "2", "3", "4", "5", "6", "7", "8", "9">>[d + 1]

RECURSIVE Decimal(_)
Decimal(n) == IF n < 10 THEN <<DigitChar(n)>> ELSE Decimal(n \div 10) \o <<DigitChar(n % 10)>>

Pad2(n) == <<DigitChar(n \div 10), DigitChar(n % 10)>>
Pad4(n) == Pad2(n \div 100) \o Pad2(n % 100)

\* the reference instants: the spec's example, the ends of a month, of
\* February in a leap year and in a common year, of a year, and of the
\* last year
AtNows ==
    {DateTime(2025, 1, 1, 10, 0, 0), DateTime(2025, 4, 30, 23, 59, 30),
     DateTime(2024, 2, 28, 23, 30, 0), DateTime(2025, 2, 28, 12, 0, 15),
     DateTime(2025, 12, 31, 23, 59, 59), DateTime(MAXYEAR, 12, 31, 23, 0, 0)}

\* the hours, minutes and seconds written in the expressions
AtHours == {0, 9, 23}
AtMinutes == {0, 30, 59}
AtDates == {[year |-> 2025, month |-> 1, day |-> 1], [year |-> 2024, month |-> 2, day |-> 29],
            [year |-> 2025, month |-> 12, day |-> 31]}

AtSubject(form, expr, now, fields) ==
    [fn |-> "parse_at_expression", form |-> form, expr |-> expr, now |-> now, fields |-> fields]

NoDate == [year |-> 0, month |-> 0, day |-> 0]
AtFields(n, unit, date, hh, mm, ss) ==
    [n |-> n, unit |-> unit, date |-> date, hh |-> hh, mm |-> mm, ss |-> ss]

\* "+<N><unit>"
RelativeSubjects ==
    {AtSubject("relative", <<"+">> \o Decimal(n) \o <<unit>>, now,
               AtFields(n, unit, NoDate, 0, 0, 0)) :
         n \in 0..MaxCount, unit \in {"m", "h", "d"}, now \in AtNows}

\* "today H:MM", "Today HH:MM", "tomorrow H:MM", "TOMORROW  HH:MM"
DaySubjects ==
    UNION {{AtSubject("today", TODAY \o <<" ">> \o Decimal(hh) \o <<":">> \o Pad2(mm), now,
                      AtFields(0, "", NoDate, hh, mm, 0)),
            AtSubject("today", <<"T">> \o Tail(TODAY) \o <<" ">> \o Pad2(hh) \o <<":">> \o Pad2(mm),
                      now, AtFields(0, "", NoDate, hh, mm, 0)),
            AtSubject("tomorrow", TOMORROW \o <<" ">> \o Decimal(hh) \o <<":">> \o Pad2(mm), now,
                      AtFields(0, "", NoDate, hh, mm, 0)),
            AtSubject("tomorrow",
                      <<"T", "O", "M", "O", "R", "R", "O", "W", " ", " ">> \o Pad2(hh) \o <<":">> \o Pad2(mm),
                      now, AtFields(0, "", NoDate, hh, mm, 0))} :
               hh \in AtHours, mm \in AtMinutes, now \in AtNows}

\* "YYYY-MM-DD HH:MM" and "YYYY-MM-DD HH:MM:SS"
WrittenDate(date) == Pad4(date.year) \o <<"-">> \o Pad2(date.month) \o <<"-">> \o Pad2(date.day)

AbsoluteSubjects ==
    UNION {{AtSubject("absolute", WrittenDate(date) \o <<" ">> \o Pad2(hh) \o <<":">> \o Pad2(mm),
                      now, AtFields(0, "", date, hh, mm, 0)),
            AtSubject("absolute",
                      WrittenDate(date) \o <<" ">> \o Pad2(hh) \o <<":">> \o Pad2(mm) \o <<":">> \o Pad2(mm),
                      now, AtFields(0, "", date, hh, mm, mm))} :
               date \in AtDates, hh \in AtHours, mm \in AtMinutes, now \in AtNows}

AtSubjects == RelativeSubjects \cup DaySubjects \cup AbsoluteSubjects

InitAt == InitCall(AtSubjects)

\* reminders_cli.parse_at_expression(expr, now)
call_parse_at_expression ==
    /\ subject.fn = "parse_at_expression"
    /\ ~answer.returned
    /\ answer' = Returned(parse_at_expression(subject.expr, subject.now))
    /\ UNCHANGED <<run_vars, subject>>

NextAt == call_parse_at_expression

SpecAt == InitAt /\ [][NextAt]_vars

(***************************************************************************)
(* The identities of the occurrences of two files: a tag, and the tag as   *)
(* it stands after an edit of the file or in another file.                 *)
(***************************************************************************)
\* the messages of the tags
MarkerMessages == {<<"a">>, <<"2", "2", "3", "6", "7", "4", "4">>,
                   <<"1", "1", "6", "2", "2", "8", "2", "5">>}

\* the explicit ids: none, and one
MarkerIds == {<<>>, <<"x">>}

\* the other fields of a tag: at alone, or another at with list, note,
\* priority and flagged
TagFields(variant) ==
    IF variant = 1 THEN AT_1H
    ELSE AT_TODAY \o <<",", " ", "l", "i", "s", "t", "=", DQ, "l", DQ>>
                  \o <<",", " ", "n", "o", "t", "e", "=", DQ, "n", DQ>>
                  \o <<",", " ", "p", "r", "i", "o", "r", "i", "t", "y", "=", "1">>
                  \o <<",", " ", "f", "l", "a", "g", "g", "e", "d", "=", "t", "r", "u", "e">>

\* the line  @reminder(message="<message>", at=...[, id="<id>"])
TagLine(message, id, variant) ==
    REMINDER_OPENER \o MessageField(message) \o TagFields(variant)
        \o (IF id = <<>> THEN <<>> ELSE <<",", " ", "i", "d", "=", DQ>> \o id \o <<DQ>>)
        \o CLOSE

\* a file whose last line is the tag, after the lines before
Placement(path, before, message, id, variant) ==
    [path |-> path, text |-> JoinLines(before \o <<TagLine(message, id, variant)>>),
     message |-> message, id |-> id]

\* a tag alone in a file, and every tag in every file: alone, under a line
\* of text, or under the first tag
MarkerSubjects ==
    UNION {{[fn |-> "_compute_stable_marker",
             first |-> Placement(path1, <<>>, m1, id1, 1),
             second |-> Placement(path2, before, m2, id2, variant)] :
                path2 \in {PATH_A, PATH_B}, m2 \in MarkerMessages, id2 \in MarkerIds,
                variant \in {1, 2},
                before \in {<<>>, <<PLAIN>>, <<TagLine(m1, id1, 1)>>}} :
              path1 \in {PATH_A, PATH_B}, m1 \in MarkerMessages, id1 \in MarkerIds}

InitMarker == InitCall(MarkerSubjects)

\* the occurrences of the file as process_file sees them (lines 511-548):
\* message, explicit id and the string of _compute_stable_marker
occurrence_markers(file) ==
    CHOOSE occs \in
        {[k \in 1..Len(found) |->
            CHOOSE o \in {[name |-> occ.name, explicit_id |-> OrEmpty(occ.explicit_id),
                           marker |-> stable_marker_text(occ.marker)] :
                              occ \in {resolve_occurrence(file.path, found[k].params_text, Epoch)}} :
                TRUE] :
            found \in {find_tags_in_text(file.text)}} : TRUE

\* reminders_cli._compute_stable_marker on every occurrence of the two files
call__compute_stable_marker ==
    /\ subject.fn = "_compute_stable_marker"
    /\ ~answer.returned
    /\ answer' = Returned(<<occurrence_markers(subject.first), occurrence_markers(subject.second)>>)
    /\ UNCHANGED <<run_vars, subject>>

NextMarker == call__compute_stable_marker

SpecMarker == InitMarker /\ [][NextMarker]_vars

(***************************************************************************)
(* One run of reminders_cli or calendar_cli over a file of one tag, for    *)
(* every at-expression of a bounded set.                                   *)
(***************************************************************************)
\* the length of the short at-expressions
MaxAt == 3

\* every text of up to MaxAt characters of "+", "1", "m", "x" and ":"
ShortAts == Texts({"+", "1", "m", "x", ":"}, MaxAt)

\* the day and absolute forms with an hour above 23 or a minute above 59
OutOfRangeAts ==
    UNION {{TODAY \o <<" ">> \o Pad2(hm[1]) \o <<":">> \o Pad2(hm[2]),
            TOMORROW \o <<" ">> \o Pad2(hm[1]) \o <<":">> \o Pad2(hm[2]),
            WrittenDate([year |-> 2025, month |-> 1, day |-> 1])
                \o <<" ">> \o Pad2(hm[1]) \o <<":">> \o Pad2(hm[2]),
            WrittenDate([year |-> 2025, month |-> 1, day |-> 1])
                \o <<" ">> \o Pad2(hm[1]) \o <<":">> \o Pad2(hm[2]) \o <<":", "0", "0">>} :
               hm \in {<<24, 0>>, <<23, 60>>, <<9, 99>>, <<99, 30>>}}

\* expressions of the four forms
InRangeAts ==
    {<<"+", "1", "h">>, TODAY \o <<" ", "0", "9", ":", "3", "0">>,
     TOMORROW \o <<" ", "9", ":", "0", "0">>,
     WrittenDate([year |-> 2025, month |-> 1, day |-> 1]) \o <<" ", "1", "0", ":", "0", "0">>}

RunAts == ShortAts \cup OutOfRangeAts \cup InRangeAts

\* the line  @<tag>(message="a", at="<expr>")
AtLine(opener, expr) ==
    opener \o MessageField(<<"a">>) \o <<",", " ", "a", "t", "=", DQ>> \o expr \o <<DQ>> \o CLOSE

AtReminderFiles == {File(PATH_A, <<AtLine(REMINDER_OPENER, expr)>>) : expr \in RunAts}
AtCalendarFiles == {File(PATH_A, <<AtLine(CALENDAR_OPENER, expr)>>) : expr \in RunAts}

InitAtRuns == InitOf("at") /\ tool \in {"reminders", "calendar"}

NextAtRuns ==
    \/ \E file \in AtReminderFiles, dry_run \in BOOLEAN :
           process_file_start(file, dry_run, FALSE, FALSE)
    \/ \E result \in Results : process_file_step(result)
    \/ \E file \in AtCalendarFiles, dry_run \in BOOLEAN :
           calendar_process_file_start(file, dry_run)
    \/ \E result \in Results : calendar_process_file_step(result)

SpecAtRuns == InitAtRuns /\ [][NextAtRuns]_vars

(***************************************************************************)
(* imessage_ingest.py: the scan of a copy of the Messages store for task   *)
(* cues.  A row of the store is a message; its date is written as the UTC  *)
(* wall clock that the date column denotes.  now is the local wall clock   *)
(* of the machine.                                                         *)
(***************************************************************************)
\* the character U+2022 of the meta note, written as an ASCII character
BULLET == "*"

YESTERDAY == <<"y", "e", "s", "t", "e", "r", "d", "a", "y">>
FMT_DATE == <<"Y", "-", "m", "-", "d">>

\* datetime.strptime(s, "%Y-%m-%d")
strptime_date(s) ==
    With(format_match(s, FMT_DATE, 1, 1, <<>>, 1), LAMBDA r :
        IF ~r.ok \/ r.end # Len(s) + 1 THEN Raised
        ELSE LET y == DigitsValue(r.caps[1])
                 mo == DigitsValue(r.caps[3])
                 d == DigitsValue(LStrip(r.caps[5]))
             IN  IF y < MINYEAR \/ d > DaysInMonth(y, mo) THEN Raised
                 ELSE Resolved(DateTime(y, mo, d, 0, 0, 0)))

\* parse_since(s), with now the value of dt.datetime.now(); ValueError when
\* no form matches
parse_since(s, now) ==
    With(Lower(Strip(s)), LAMBDA sl :
        IF sl = TODAY THEN Resolved(DateTime(now.year, now.month, now.day, 0, 0, 0))
        ELSE IF sl = YESTERDAY
        THEN With(PlusDelta(now, 0 - 1, 0), LAMBDA y :
                 Resolved(DateTime(y.t.year, y.t.month, y.t.day, 0, 0, 0)))
        ELSE With(strptime(s, FMT_MINUTES), LAMBDA minutes :
                 IF ~minutes.err THEN minutes ELSE strptime_date(s)))

\* strftime("%Y-%m-%d %H:%M:%S"), and SQLite's datetime(..., 'unixepoch'),
\* which writes the same form
to_sqlite_since_value(t) ==
    Pad4(t.year) \o <<"-">> \o Pad2(t.month) \o <<"-">> \o Pad2(t.day) \o <<" ">>
        \o Pad2(t.hour) \o <<":">> \o Pad2(t.minute) \o <<":">> \o Pad2(t.second)

\* the comparison a < b of two TEXT values in SQLite (byte by byte)
RECURSIVE TextLess(_, _)
TextLess(a, b) ==
    IF b = <<>> THEN FALSE
    ELSE IF a = <<>> THEN TRUE
    ELSE IF a[1] = b[1] THEN TextLess(Tail(a), Tail(b))
    ELSE Ord(a[1]) < Ord(b[1])

\* ORDER BY m.date DESC: the latest row first.  The order of rows of equal
\* date is SQLite's choice; the stores of the model hold distinct dates.
RECURSIVE order_by_date_desc(_)
order_by_date_desc(rows) ==
    IF rows = <<>> THEN <<>>
    ELSE LET latest == CHOOSE i \in 1..Len(rows) :
                           \A j \in 1..Len(rows) :
                               ~TextLess(to_sqlite_since_value(rows[i].date),
                                         to_sqlite_since_value(rows[j].date))
         IN  <<rows[latest]>>
                 \o order_by_date_desc([k \in 1..(Len(rows) - 1) |->
                                           IF k < latest THEN rows[k] ELSE rows[k + 1]])

\* fetch_messages(conn, since_iso): the rows (message_id, sent_iso, sender,
\* chat_identifier, text) of the query
fetch_messages(rows, since_iso) ==
    LET kept == SelectSeq(rows, LAMBDA m :
                    /\ m.text # None
                    /\ Len(m.text) > 0
                    /\ ~TextLess(to_sqlite_since_value(m.date), since_iso))
        sorted == order_by_date_desc(kept)
    IN  [k \in 1..Len(sorted) |->
            [message_id |-> sorted[k].message_id,
             sent_iso |-> to_sqlite_since_value(sorted[k].date),
             sender |-> sorted[k].sender,
             chat_identifier |-> sorted[k].chat_identifier,
             text |-> sorted[k].text]]

\* (todo|to-do|task)
TRIGGER_WORDS == <<<<"t", "o", "d", "o">>, <<"t", "o", "-", "d", "o">>, <<"t", "a", "s", "k">>>>

\* (.+)$ from position p: the characters up to the end of s, or up to a
\* newline that ends s; none of them a newline
dot_plus_end(s, p) ==
    LET q == IF Find(s, <<NL>>, p) = 0 THEN Len(s) + 1 ELSE Find(s, <<NL>>, p)
    IN  IF p <= Len(s) /\ q > p /\ q >= Len(s)
        THEN [ok |-> TRUE, group |-> SubSeq(s, p, q - 1)]
        ELSE [ok |-> FALSE, group |-> <<>>]

\* \s*(.+)$ or \s+(.+)$ from position p: the whitespace run first taken
\* whole (j characters), then shortened down to least characters
RECURSIVE space_then_group(_, _, _, _)
space_then_group(s, p, j, least) ==
    IF j < least THEN [ok |-> FALSE, group |-> <<>>]
    ELSE IF dot_plus_end(s, p + j).ok THEN dot_plus_end(s, p + j)
    ELSE space_then_group(s, p, j - 1, least)

\* TRIGGER_PATTERNS[0].match(s): ^\s*(todo|to-do|task)[:\-]\s*(.+)$ with
\* re.IGNORECASE
trigger_match(s) ==
    LET lead == SpaceRun(s, 1)
        words == {k \in 1..Len(TRIGGER_WORDS) :
                     /\ lead + Len(TRIGGER_WORDS[k]) + 1 <= Len(s)
                     /\ Lower(SubSeq(s, lead + 1, lead + Len(TRIGGER_WORDS[k])))
                            = TRIGGER_WORDS[k]
                     /\ s[lead + Len(TRIGGER_WORDS[k]) + 1] \in {":", "-"}}
    IN  IF words = {} THEN [ok |-> FALSE, group |-> <<>>]
        ELSE LET p == lead + Len(TRIGGER_WORDS[CHOOSE k \in words : TRUE]) + 2
             IN  space_then_group(s, p, SpaceRun(s, p), 0)

\* re.match(r"^\s*todo\s+(.+)$", text, re.IGNORECASE)
fallback_match(text) ==
    LET lead == SpaceRun(text, 1)
        p == lead + 5
    IN  IF lead + 4 <= Len(text) /\ Lower(SubSeq(text, lead + 1, lead + 4)) = TRIGGER_WORDS[1]
        THEN space_then_group(text, p, SpaceRun(text, p), 1)
        ELSE [ok |-> FALSE, group |-> <<>>]

\* extract_task_from_text(text): the task, or None
extract_task_from_text(text) ==
    With(trigger_match(Strip(text)), LAMBDA m :
        IF m.ok THEN (IF Strip(m.group) # <<>> THEN Strip(m.group) ELSE None)
        ELSE With(fallback_match(text), LAMBDA m2 :
                 IF m2.ok THEN Strip(m2.group) ELSE None))

\* "k in t" for a text k
ContainsText(t, k) == Find(t, k, 1) # 0

FOCUS_KEYWORDS == {<<"f", "o", "c", "u", "s">>, <<"d", "r", "a", "f", "t">>, <<"w", "r", "i", "t", "e">>, <<"o", "u", "t", "l", "i", "n", "e">>, <<"d", "e", "e", "p", " ", "w", "o", "r", "k">>, <<"p", "l", "a", "n", " ">>}

looks_like_focus_block(task) == \E k \in FOCUS_KEYWORDS : ContainsText(Lower(task), k)

\* format_tags(...): the reminder line, then the calendar line when asked
\* for and the task looks like a focus block
format_tags(task, meta_note, default_at, list_name, add_calendar, cal_name, duration) ==
    <<<<"@", "r", "e", "m", "i", "n", "d", "e", "r", "(", "m", "e", "s", "s", "a", "g", "e", "=", "\"">> \o task \o <<"\"", ",", " ", "a", "t", "=", "\"">> \o default_at
          \o <<"\"", ",", " ", "l", "i", "s", "t", "=", "\"">> \o list_name \o <<"\"", ",", " ", "n", "o", "t", "e", "=", "\"">> \o meta_note
          \o <<"\"", ",", " ", "p", "r", "i", "o", "r", "i", "t", "y", "=", "5", ")">>>>
    \o (IF add_calendar /\ looks_like_focus_block(task)
        THEN <<<<"@", "c", "a", "l", "e", "n", "d", "a", "r", "(", "m", "e", "s", "s", "a", "g", "e", "=", "\"", "F", "o", "c", "u", "s", " ", "b", "l", "o", "c", "k", ":", " ">> \o task \o <<"\"", ",", " ", "a", "t", "=", "\"">> \o default_at
                   \o <<"\"", ",", " ", "d", "u", "r", "a", "t", "i", "o", "n", "=", "\"">> \o duration \o <<"\"", ",", " ", "c", "a", "l", "e", "n", "d", "a", "r", "=", "\"">> \o cal_name
                   \o <<"\"", ",", " ", "l", "o", "c", "a", "t", "i", "o", "n", "=", "\"", "D", "e", "s", "k", "\"", ",", " ", "n", "o", "t", "e", "=", "\"">> \o meta_note \o <<"\"", ")">>>>
        ELSE <<>>)

\* main: meta_note
meta_note_of(row) ==
    <<"i", "M", "e", "s", "s", "a", "g", "e", " ">> \o row.sender \o <<" ", "(">> \o row.chat_identifier \o <<")", " ">>
        \o <<BULLET, " ">> \o row.sent_iso \o <<" ", BULLET>> \o <<" ", "m", "s", "g", ":">>
        \o Decimal(row.message_id)

\* args.contacts.split(","): the pieces between the commas
RECURSIVE split_commas(_)
split_commas(s) ==
    IF Find(s, <<",">>, 1) = 0 THEN <<s>>
    ELSE <<SubSeq(s, 1, Find(s, <<",">>, 1) - 1)>>
             \o split_commas(SubSeq(s, Find(s, <<",">>, 1) + 1, Len(s)))

\* main: contact_filters
contact_filters_of(contacts) ==
    IF ~Truthy(contacts) THEN <<>>
    ELSE LET pieces == SelectSeq(split_commas(contacts), LAMBDA c : Strip(c) # <<>>)
         IN  [k \in 1..Len(pieces) |-> Lower(Strip(pieces[k]))]

\* main: the two filters of the loop body; TRUE when the row is passed over
row_filtered(row, args) ==
    \/ /\ contact_filters_of(args.contacts) # <<>>
       /\ ~\E k \in 1..Len(contact_filters_of(args.contacts)) :
              ContainsText(Lower(row.sender) \o <<" ">> \o Lower(row.chat_identifier),
                           contact_filters_of(args.contacts)[k])
    \/ /\ Truthy(args.contains)
       /\ ~ContainsText(Lower(row.text), Lower(args.contains))

\* main: the for loop over the fetched rows
RECURSIVE emit_loop(_, _, _)
emit_loop(rows, k, args) ==
    IF k > Len(rows) THEN <<>>
    ELSE (IF row_filtered(rows[k], args) \/ ~Truthy(extract_task_from_text(rows[k].text))
          THEN <<>>
          ELSE format_tags(extract_task_from_text(rows[k].text), meta_note_of(rows[k]),
                           args.default_at, args.reminder_list, args.add_calendar,
                           args.calendar, args.duration))
         \o emit_loop(rows, k + 1, args)

NO_CANDIDATES == <<"N", "o", " ", "c", "a", "n", "d", "i", "d", "a", "t", "e", " ", "t", "a", "s", "k", "s", " ", "f", "o", "u", "n", "d", ".">>

\* what a run of main leaves behind: the exit status, the lines printed and
\* the lines appended to the output file
Outcome(status, stdout, appended) == [status |-> status, stdout |-> stdout, appended |-> appended]

\* imessage_ingest.main with the store db and the local clock now.  An
\* exception that main does not catch (ValueError of parse_since,
\* FileNotFoundError of ensure_copy_readonly) ends the run with status 1.
ingest_main(args, db, now) ==
    With(parse_since(args.since, now), LAMBDA since_dt :
        IF since_dt.err \/ db.kind = "absent" THEN Outcome(1, <<>>, <<>>)
        ELSE With(emit_loop(fetch_messages(db.rows, to_sqlite_since_value(since_dt.t)), 1, args),
                  LAMBDA emitted :
                 IF emitted = <<>> THEN Outcome(0, <<NO_CANDIDATES>>, <<>>)
                 ELSE IF Truthy(args.output_file) /\ ~args.dry_run
                 THEN Outcome(0, <<<<"A", "p", "p", "e", "n", "d", "e", "d", " ">> \o Decimal(Len(emitted))
                                       \o <<" ", "t", "a", "g", " ", "l", "i", "n", "e", "(", "s", ")", " ", "t", "o", " ">> \o args.output_file>>,
                              emitted)
                 ELSE Outcome(0, emitted, <<>>)))
(***************************************************************************)
(* Runs of imessage_ingest.main: the store, the clock, the zone of the     *)
(* machine and the arguments are drawn; the run is one step.               *)
(***************************************************************************)
\* the length of what follows the trigger in a message text
MaxCue == 2

\* parse_args: the defaults of the options
DefaultArgs(since) ==
    [since |-> since, dry_run |-> TRUE, output_file |-> None, contains |-> None,
     contacts |-> None, default_at |-> <<"t", "o", "d", "a", "y", " ", "1", "0", ":", "0", "0">>, reminder_list |-> <<"W", "o", "r", "k">>,
     add_calendar |-> FALSE, calendar |-> <<"W", "o", "r", "k">>, duration |-> <<"3", "0", "m">>]

\* the local clock of the runs
IngestNow == DateTime(2025, 8, 15, 10, 0, 0)

\* the hours the local zone is ahead of UTC
UtcOffsets == {0 - 8, 0, 9}

\* the UTC wall clock of a local one
ToUTC(local, offset) == PlusDelta(local, 0, 0 - offset * 60).t

\* a message received at the local time sent_local
Row(id, sent_local, offset, text) ==
    [message_id |-> id, date |-> ToUTC(sent_local, offset), sender |-> <<"+", "1">>,
     chat_identifier |-> <<"c", ";", "+", "1">>, text |-> text]

\* message texts: a word, what follows it and a tail of letters, blanks and
\* newlines
CueTexts ==
    {lead \o word \o sep \o tail :
        lead \in {<<>>, <<" ">>},
        word \in {<<"t", "o", "d", "o">>, <<"T", "O", "D", "O">>, <<"t", "o", "-", "d", "o">>, <<"T", "a", "s", "k">>, <<"n", "o", "t", "e">>},
        sep \in {<<":">>, <<"-">>, <<" ">>, <<>>},
        tail \in Texts({"a", " ", NL}, MaxCue)}

CueSentLocals == {DateTime(2025, 8, 15, 8, 0, 0), DateTime(2025, 8, 14, 23, 0, 0)}
CueSinces == {<<"t", "o", "d", "a", "y">>, <<"Y", "e", "s", "t", "e", "r", "d", "a", "y">>, <<"2", "0", "2", "5", "-", "0", "8", "-", "1", "5">>, <<"2", "0", "2", "5", "-", "0", "8", "-", "1", "5", " ", "0", "7", ":", "3", "0">>, <<"s", "o", "o", "n">>}

\* the other rows of the store: none, a later cue, a row without text
OtherRows(other, offset) ==
    CASE other = "none" -> <<>>
      [] other = "cue" -> <<Row(2, DateTime(2025, 8, 15, 9, 0, 0), offset,
                                <<"t", "a", "s", "k", ":", " ", "b">>)>>
      [] other = "null" -> <<Row(2, DateTime(2025, 8, 15, 9, 0, 0), offset, None)>>

IngestSubject(args, rows, sent_local, offset) ==
    [fn |-> "ingest_main", args |-> args, db |-> [kind |-> "store", rows |-> rows],
     now |-> IngestNow, sent_local |-> sent_local, offset |-> offset]

\* dry runs with the default options over every message text
CueSubjects ==
    {IngestSubject(DefaultArgs(since),
                   <<Row(1, sent_local, offset, text)>> \o OtherRows(other, offset),
                   sent_local, offset) :
        since \in CueSinces, sent_local \in CueSentLocals, text \in CueTexts,
        other \in {"none", "cue", "null"}, offset \in UtcOffsets}

\* runs with the options set, over a few texts; and runs without a store
OptionSubjects ==
    {IngestSubject([DefaultArgs(<<"t", "o", "d", "a", "y">>) EXCEPT
                        !.dry_run = dry_run, !.output_file = output_file,
                        !.contains = contains, !.contacts = contacts,
                        !.add_calendar = add_calendar],
                   <<Row(1, DateTime(2025, 8, 15, 8, 0, 0), 0, text)>>,
                   DateTime(2025, 8, 15, 8, 0, 0), 0) :
        dry_run \in BOOLEAN, output_file \in {None, <<"/", "w", "/", "o", ".", "m", "d">>},
        contains \in {None, <<"A">>}, contacts \in {None, <<"+", "2", ",", " ", "C", ";">>},
        add_calendar \in BOOLEAN,
        text \in {<<"t", "o", "d", "o", ":", " ", "a">>, <<"t", "o", "d", "o", ":", " ", "p", "l", "a", "n", " ", "b">>, <<"h", "e", "l", "l", "o">>}}
    \cup
    {[IngestSubject(DefaultArgs(<<"t", "o", "d", "a", "y">>), <<>>, IngestNow, 0) EXCEPT !.db.kind = "absent"]}

IngestSubjects == CueSubjects \cup OptionSubjects

InitIngest == InitCall(IngestSubjects)

\* one run of imessage_ingest.main
call_ingest_main ==
    /\ subject.fn = "ingest_main"
    /\ ~answer.returned
    /\ answer' = Returned(ingest_main(subject.args, subject.db, subject.now))
    /\ UNCHANGED <<run_vars, subject>>

NextIngest == call_ingest_main

SpecIngest == InitIngest /\ [][NextIngest]_vars

(***************************************************************************)
(* parse_tag_params on every short parameter text of quotes, letters,      *)
(* equals signs, commas and blanks                                         *)
(***************************************************************************)
\* the length of the parameter texts
MaxParams == 5

SegmentSubjects ==
    {[fn |-> "parse_tag_params", text |-> text] :
        text \in Texts({DQ, "a", "=", ",", " "}, MaxParams)}

InitSegments == InitCall(SegmentSubjects)

SpecSegments == InitSegments /\ [][NextParse]_vars

(***************************************************************************)
(* find_tags_in_text on texts whose first line holds an opener followed by *)
(* a short tail, closed or not, before other lines                         *)
(***************************************************************************)
\* the length of the tail after the opener
MaxOpen == 3

\* @reminder(a) and @reminder(b)
R_SHORT_A == REMINDER_OPENER \o <<"a">> \o CLOSE
R_SHORT_B == REMINDER_OPENER \o <<"b">> \o CLOSE

\* the lines after the first: none, a tag, a quote and a parenthesis before
\* a tag, a plain line before a tag; each with the parameter texts of its
\* tags read as a text of its own
FollowingLines ==
    {[lines |-> <<>>, tags |-> <<>>],
     [lines |-> <<R_SHORT_B>>, tags |-> <<[line_no |-> 2, params_text |-> <<"b">>]>>],
     [lines |-> <<<<DQ, ")", " ">> \o R_SHORT_B>>,
      tags |-> <<[line_no |-> 2, params_text |-> <<"b">>]>>],
     [lines |-> <<PLAIN, R_SHORT_B \o R_SHORT_A>>,
      tags |-> <<[line_no |-> 3, params_text |-> <<"b">>],
                 [line_no |-> 3, params_text |-> <<"a">>]>>]}

UnterminatedSubjects ==
    {[fn |-> "find_tags_in_text", before |-> before, tail |-> tail \o after,
      following |-> following,
      text |-> JoinLines(<<before \o REMINDER_OPENER \o tail \o after>> \o following.lines)] :
        before \in {<<>>, R_SHORT_A \o <<" ">>},
        tail \in Texts({DQ, BS, "(", ")", "a"}, MaxOpen),
        after \in {<<>>, <<" ">> \o R_SHORT_B},
        following \in FollowingLines}

InitUnterminated == InitCall(UnterminatedSubjects)

SpecUnterminated == InitUnterminated /\ [][NextRoundTrip]_vars

(***************************************************************************)
(* parse_tag_params on parameter texts in which field names repeat         *)
(***************************************************************************)
\* the number of key=value segments of a parameter text
MaxPairs == 3

\* key=value segments as written, with the field name and the value meant
PairSegments ==
    {[key |-> <<"x">>, val |-> <<"1">>, written |-> <<"x", "=", "1">>],
     [key |-> <<"x">>, val |-> <<"2">>, written |-> <<"x", "=", "\"", "2", "\"">>],
     [key |-> <<"x">>, val |-> <<"3">>, written |-> <<" ", "x", " ", "=", " ", "3", " ">>],
     [key |-> <<"y">>, val |-> <<"1">>, written |-> <<"y", "=", "1">>],
     [key |-> MSG_KEY, val |-> <<"q">>, written |-> <<"m", "e", "s", "s", "a", "g", "e", "=", "\"", "q", "\"">>]}

\* ",".join(pieces)
RECURSIVE JoinCommas(_)
JoinCommas(pieces) ==
    IF pieces = <<>> THEN <<>>
    ELSE IF Len(pieces) = 1 THEN pieces[1]
    ELSE pieces[1] \o <<",">> \o JoinCommas(Tail(pieces))

\* the segments one after the other, after the positional message "p" or
\* without it
DuplicateSubjects ==
    {[fn |-> "parse_tag_params", positional |-> positional, segments |-> segments,
      text |-> JoinCommas((IF positional THEN <<<<"\"", "p", "\"">>>> ELSE <<>>)
                          \o [k \in 1..Len(segments) |-> segments[k].written])] :
        positional \in BOOLEAN, segments \in Texts(PairSegments, MaxPairs)}

InitDuplicates == InitCall(DuplicateSubjects)

SpecDuplicates == InitDuplicates /\ [][NextParse]_vars

(***************************************************************************)
(* email_cli.py: apply_filters over the items of coerce_items.  An aware   *)
(* datetime is held by its instant, in whole hours of UTC, which is what   *)
(* astimezone(timezone.utc) and the comparisons of aware datetimes see; a  *)
(* date is a day number and the zone of the machine is an offset in hours. *)
(***************************************************************************)

\* MailItem.date: None, or the instant of an aware datetime
Undated == [dated |-> FALSE]
DateAt(h) == [dated |-> TRUE, utc |-> h]

\* an Optional[date]: None, or a day number
NoDay == [given |-> FALSE]
Day(d) == [given |-> TRUE, day |-> d]

\* the fields of MailItem that apply_filters reads
MailItem(id, subj, sender, sender_email, date) ==
    [id |-> id, subject |-> subj, sender |-> sender,
     sender_email |-> sender_email, date |-> date]

\* datetime.combine(d, datetime.min.time()).astimezone(timezone.utc)
day_start(d, offset) == d * 24 - offset

\* datetime.combine(d, datetime.max.time()).astimezone(timezone.utc): the
\* last whole hour of the day
day_end(d, offset) == day_start(d + 1, offset) - 1

\* str.endswith
EndsWithText(s, e) ==
    Len(e) <= Len(s) /\ SubSeq(s, Len(s) - Len(e) + 1, Len(s)) = e

RECURSIVE is_blocked_from(_, _, _)
is_blocked_from(sender_email, blocklist, k) ==
    IF k > Len(blocklist) THEN FALSE
    ELSE LET item == blocklist[k] IN
         IF item # <<>> /\ item[1] = "@"
         THEN IF EndsWithText(sender_email, item) THEN TRUE
              ELSE is_blocked_from(sender_email, blocklist, k + 1)
         ELSE IF ContainsText(item, <<"@">>)
         THEN IF sender_email = item THEN TRUE
              ELSE is_blocked_from(sender_email, blocklist, k + 1)
         ELSE IF ContainsText(sender_email, item) THEN TRUE
              ELSE is_blocked_from(sender_email, blocklist, k + 1)

is_blocked(sender_email, blocklist) ==
    IF sender_email = <<>> THEN FALSE
    ELSE is_blocked_from(sender_email, blocklist, 1)

\* the date filters of one item: TRUE when the loop continues
date_filtered(item, today_only, since_date, until_date, local) ==
    IF item.date.dated
    THEN \/ today_only /\ ~(/\ day_start(local.today, local.offset) <= item.date.utc
                            /\ item.date.utc < day_start(local.today, local.offset) + 24)
         \/ since_date.given /\ item.date.utc < day_start(since_date.day, local.offset)
         \/ until_date.given /\ item.date.utc > day_end(until_date.day, local.offset)
    ELSE today_only \/ since_date.given \/ until_date.given

\* the sort key (t[0].date is None, t[0].date) of two entries, compared as
\* Python compares tuples: the first components that differ decide
key_less(a, b) ==
    IF a.item.date.dated # b.item.date.dated
    THEN a.item.date.dated
    ELSE a.item.date.dated /\ a.item.date.utc < b.item.date.utc

\* list.sort(key, reverse=True): descending, entries of equal keys in
\* their order of the list
RECURSIVE sort_reverse(_, _, _)
sort_reverse(list, k, out) ==
    IF k > Len(list) THEN out
    ELSE LET x == list[k]
             p == IF \E j \in 1..Len(out) : key_less(out[j], x)
                  THEN (CHOOSE j \in 1..Len(out) :
                            /\ key_less(out[j], x)
                            /\ \A i \in 1..(j - 1) : ~key_less(out[i], x)) - 1
                  ELSE Len(out)
         IN  sort_reverse(list, k + 1,
                 SubSeq(out, 1, p) \o <<x>> \o SubSeq(out, p + 1, Len(out)))

RECURSIVE filter_loop(_, _, _, _)
filter_loop(items, k, args, filtered) ==
    IF k > Len(items) THEN filtered
    ELSE LET item == items[k]
             subject_pat == IF Truthy(args.subject_contains)
                            THEN Lower(args.subject_contains) ELSE None
             from_pat == IF Truthy(args.from_contains)
                         THEN Lower(args.from_contains) ELSE None
             blocked == is_blocked(item.sender_email, args.blocklist)
         IN  IF \/ date_filtered(item, args.today_only, args.since_date,
                                 args.until_date, args.clock)
                \/ Truthy(subject_pat) /\ ~ContainsText(Lower(item.subject), subject_pat)
                \/ /\ Truthy(from_pat)
                   /\ ~ContainsText(Lower(item.sender), from_pat)
                   /\ ~ContainsText(Lower(item.sender_email), from_pat)
                \/ blocked /\ ~args.include_blocked
             THEN filter_loop(items, k + 1, args, filtered)
             ELSE filter_loop(items, k + 1, args,
                      Append(filtered, [item |-> item, blocked |-> blocked]))

\* apply_filters: the kept (item, blocked) pairs after the sort
apply_filters(items, args) ==
    With(filter_loop(items, 1, args, <<>>),
         LAMBDA filtered : sort_reverse(filtered, 1, <<>>))

(***************************************************************************)
(* apply_filters on every list of up to MaxItems inbox items               *)
(***************************************************************************)

MaxItems == 3

\* the clock of the machine: the day number of date.today() and the zone
MailClocks == {[today |-> 2, offset |-> o] : o \in {0 - 8, 0, 9}}

MailPool ==
    {MailItem(1, <<"I", "n", "v", "o", "i", "c", "e">>, <<"B", "o", "b", " ", "<", "b", "o", "b", "@", "a", ".", "c", "o", "m", ">">>, <<"b", "o", "b", "@", "a", ".", "c", "o", "m">>, DateAt(50)),
     MailItem(2, <<"h", "e", "l", "l", "o">>, <<"E", "v", "e", " ", "<", "e", "v", "e", "@", "s", "p", "a", "m", ".", "c", "o", "m", ">">>, <<"e", "v", "e", "@", "s", "p", "a", "m", ".", "c", "o", "m">>, DateAt(60)),
     MailItem(3, <<"i", "n", "v", "o", "i", "c", "e", " ", "2">>, <<"b", "o", "b", "@", "a", ".", "c", "o", "m">>, <<"b", "o", "b", "@", "a", ".", "c", "o", "m">>, DateAt(20)),
     MailItem(4, <<"I", "n", "v", "o", "i", "c", "e">>, <<"B", "o", "b", " ", "<", "b", "o", "b", "@", "a", ".", "c", "o", "m", ">">>, <<"b", "o", "b", "@", "a", ".", "c", "o", "m">>, Undated),
     MailItem(5, <<"h", "e", "l", "l", "o">>, <<>>, <<>>, Undated),
     MailItem(6, <<"h", "e", "l", "l", "o">>, <<"A", "l", " ", "<", "a", "l", "@", "a", ".", "c", "o", "m", ">">>, <<"a", "l", "@", "a", ".", "c", "o", "m">>, DateAt(60))}

MailArgs ==
    {[today_only |-> t, since_date |-> s, until_date |-> u,
      subject_contains |-> sc, from_contains |-> fc, blocklist |-> bl,
      include_blocked |-> ib, clock |-> c] :
        t \in BOOLEAN, s \in {NoDay, Day(1)}, u \in {NoDay, Day(2)},
        sc \in {None, <<"I", "N", "V">>}, fc \in {None, <<"b", "o", "b">>},
        bl \in {<<>>, <<<<"@", "s", "p", "a", "m", ".", "c", "o", "m">>, <<"a", "l", "@", "a", ".", "c", "o", "m">>>>}, ib \in BOOLEAN,
        c \in MailClocks}

MailLists ==
    {l \in UNION {[1..n -> MailPool] : n \in 1..MaxItems} :
        \A i, j \in DOMAIN l : i # j => l[i].id # l[j].id}

FilterSubjects ==
    {[fn |-> "apply_filters", items |-> l, args |-> a] :
        l \in MailLists,
        a \in {x \in MailArgs : /\ ~x.today_only /\ ~x.since_date.given
                                /\ ~x.until_date.given
                                /\ x.subject_contains = None
                                /\ x.from_contains = None}}
    \cup {[fn |-> "apply_filters", items |-> l, args |-> a] :
        l \in {m \in MailLists : Len(m) = 2}, a \in MailArgs}

InitFilters == InitCall(FilterSubjects)

call_apply_filters ==
    /\ subject.fn = "apply_filters"
    /\ ~answer.returned
    /\ answer' = Returned(apply_filters(subject.items, subject.args))
    /\ UNCHANGED <<run_vars, subject>>

NextFilters == call_apply_filters

SpecFilters == InitFilters /\ [][NextFilters]_vars

(***************************************************************************)
(* imessage_send over a file that is edited between the runs: the tag of   *)
(* line 1 is replaced by another one, or a second tag is written behind it *)
(* on the same line.  The log is never reset.                              *)
(***************************************************************************)
EditedSendFiles ==
    {File(PATH_A, <<I_A>>), File(PATH_A, <<I_C>>),
     File(PATH_A, <<I_A \o <<" ">> \o I_C>>)}

InitEdits == InitOf("edits") /\ tool = "imessage"

NextEdits ==
    \/ \E file \in EditedSendFiles, yes \in BOOLEAN : main_start(file, yes, FALSE)
    \/ \E result \in Results : main_send(result)

SpecEdits == InitEdits /\ [][NextEdits]_vars

(***************************************************************************)
(* From a message to the parser of reminders_cli: the task of a cue, the   *)
(* line format_tags writes for it, and what find_tags_in_text and          *)
(* parse_tag_params read in that line                                      *)
(***************************************************************************)
\* the length of the body of a cue
MaxTask == 3

\* a row as fetch_messages returns it
FetchedRow(id, sender, text) ==
    [message_id |-> id,
     sent_iso |-> to_sqlite_since_value(DateTime(2025, 8, 15, 8, 0, 0)),
     sender |-> sender, chat_identifier |-> <<"c", ";">> \o sender, text |-> text]

\* cues  todo: <body>  over letters, quotes, backslashes, commas,
\* parentheses and blanks, from two senders
TaskSubjects ==
    {[fn |-> "format_tags", args |-> DefaultArgs(<<"t", "o", "d", "a", "y">>),
      row |-> FetchedRow(7, sender, <<"t", "o", "d", "o", ":", " ">> \o body)] :
        sender \in {<<"+", "1">>, <<"A", "l">>},
        body \in {b \in Texts({"a", DQ, BS, ",", ")", " "}, MaxTask) :
                      extract_task_from_text(<<"t", "o", "d", "o", ":", " ">> \o b) # None}}

InitTasks == InitCall(TaskSubjects)

\* main lines 208-220 for one row, then the scan and the parse of the
\* reminder line by reminders_cli
call_format_tags ==
    /\ subject.fn = "format_tags"
    /\ ~answer.returned
    /\ \E task \in {extract_task_from_text(subject.row.text)} :
       \E meta_note \in {meta_note_of(subject.row)} :
       \E lines \in {format_tags(task, meta_note, subject.args.default_at,
                                 subject.args.reminder_list, subject.args.add_calendar,
                                 subject.args.calendar, subject.args.duration)} :
           answer' = Returned([task |-> task, meta_note |-> meta_note, lines |-> lines,
                               found |-> scan_and_parse(find_tags_in_text(lines[1]))])
    /\ UNCHANGED <<run_vars, subject>>

NextTasks == call_format_tags

SpecTasks == InitTasks /\ [][NextTasks]_vars

(***************************************************************************)
(* Properties.  trace and history are read as the record of what the runs  *)
(* did.                                                                    *)
(***************************************************************************)
Runs == 1..Len(history)

\* the events of run r, in the order they happened
RunEvents(r) == SelectSeq(trace, LAMBDA e : e.run = r)

\* the executor was run for the event and returned success
Dispatched(e) == e.kind = "call" /\ e.result = "ok"

\* the occurrence of the event failed: it raised before or in the executor
Failed(e) == e.kind = "error" \/ (e.kind = "call" /\ e.result # "ok")

\* run r is a run with reset_log = false and ignore_sent_log = false
PlainRun(r) == ~history[r].reset_log /\ ~history[r].ignore_sent_log

\* run r took the ledger file away
ResetRun(r) == history[r].reset_log /\ ~history[r].dry_run

\* the entries of the ledger that run r appended (entries carry the clock of
\* the run that logged them)
LoggedIn(r) ==
    SelectSeq(_load_sent_log(ledger), LAMBDA en : en.object /\ en.logged_at = history[r].now)

\* event j shows an occurrence with the id of the dispatched event i in a
\* later plain run
SameIdLater(i, j) ==
    /\ i < j
    /\ Dispatched(trace[i]) /\ trace[i].id # <<>>
    /\ trace[j].id = trace[i].id
    /\ trace[j].run > trace[i].run
    /\ PlainRun(trace[j].run)

\* event j neither ran the executor nor left a ledger entry
NotDispatchedAgain(j) ==
    /\ trace[j].kind # "call"
    /\ \A k \in 1..Len(LoggedIn(trace[j].run)) : LoggedIn(trace[j].run)[k].id # trace[j].id

NoResetBetween(i, j) ==
    \A r \in Runs : trace[i].run < r /\ r < trace[j].run => ~ResetRun(r)

\* C1 as stated: once an occurrence with explicit id X was dispatched
\* successfully, every later run with reset_log = false and
\* ignore_sent_log = false skips every occurrence with id X (no executor
\* call, no new ledger entry).
C1_SkippedInEveryLaterRun ==
    tool = "reminders" =>
        \A i, j \in 1..Len(trace) : SameIdLater(i, j) => NotDispatchedAgain(j)

\* C1 amended: the same, provided no non-dry-run run with reset_log = true
\* took place between the successful dispatch and the later run.
C1_SkippedUntilReset ==
    tool = "reminders" =>
        \A i, j \in 1..Len(trace) :
            SameIdLater(i, j) /\ NoResetBetween(i, j) => NotDispatchedAgain(j)

\* C1 witness: id x, dispatched from one file, is skipped in a later plain
\* run on another file, line and message.
C1_Witness ==
    /\ tool = "reminders"
    /\ \E i, j \in 1..Len(trace) :
          /\ SameIdLater(i, j) /\ NoResetBetween(i, j)
          /\ trace[j].kind = "skip"
          /\ trace[j].line_no # trace[i].line_no
          /\ trace[j].name # trace[i].name
          /\ history[trace[j].run].path # history[trace[i].run].path

\* runs a and b are two runs in non-dry-run mode, no reset, no ignore-ledger,
\* one after the other on the same unmodified file, every executor call
\* succeeding
RunTwice(a, b) ==
    /\ b = a + 1
    /\ b < Len(history) \/ pc = "done"
    /\ \A r \in {a, b} : PlainRun(r) /\ ~history[r].dry_run
    /\ history[a].path = history[b].path /\ history[a].text = history[b].text
    /\ \A k \in 1..Len(trace) :
          trace[k].run \in {a, b} /\ trace[k].kind = "call" => trace[k].result = "ok"

\* C2: running the same unmodified file twice (non-dry-run, no reset, no
\* ignore-ledger, executor succeeding) invokes the executor at most once for
\* each tag occurrence, with or without an explicit id.
C2_NoDuplicateOnRerun ==
    tool = "reminders" =>
        \A a, b \in Runs : RunTwice(a, b) =>
            \A m, n \in 1..Len(trace) :
                /\ trace[m].run = a /\ trace[n].run = b
                /\ trace[m].idx = trace[n].idx
                => ~(trace[m].kind = "call" /\ trace[n].kind = "call")

\* C3: a run of reminders process_file with dry_run = true never runs the
\* executor and leaves the ledger file as it was before the run.
C3_DryRunSideEffectFree ==
    tool = "reminders" /\ history # <<>> /\ cur.dry_run =>
        /\ ledger = cur.ledger
        /\ \A k \in 1..Len(trace) : trace[k].run = Len(history) => trace[k].kind # "call"

\* C3 witness: a finished dry run with reset_log = true over a file with
\* tags, the ledger holding an entry.
C3_Witness ==
    /\ tool = "reminders" /\ pc = "done" /\ history # <<>>
    /\ cur.dry_run /\ cur.reset_log
    /\ cur.ledger = ListLedger(<<OldEntry>>)
    /\ Len(RunEvents(Len(history))) >= 2

\* C4: a run of imessage_send.main without --yes never sends a message and
\* leaves the content of the sent-marker log as it was before the run,
\* whatever --reset-log.
C4_SendDryRunSideEffectFree ==
    tool = "imessage" /\ history # <<>> /\ cur.dry_run =>
        /\ sent_log_file.lines = cur.sent_log_file.lines
        /\ \A k \in 1..Len(trace) : trace[k].run = Len(history) => trace[k].kind # "call"

\* what the loop body does with occurrence k of the current run when the
\* occurrence is taken alone: "error" (it raises before the executor),
\* "skip", "describe" (dry run) or "call"
OutcomeAlone(k) ==
    IF tool = "reminders"
    THEN LET occ == resolve_occurrence(cur.path, tags[k].params_text, cur.now) IN
         IF occ.err THEN "error"
         ELSE IF Truthy(occ.explicit_id) /\ ~cur.ignore_sent_log /\ occ.explicit_id \in sent_ids
         THEN "skip"
         ELSE IF cur.dry_run THEN "describe" ELSE "call"
    ELSE LET occ == resolve_event(cur.path, tags[k].line_no, tags[k].params_text, cur.now) IN
         IF occ.err THEN "error"
         ELSE IF cur.dry_run THEN "describe" ELSE "call"

\* C5: in reminders and calendar process_file a failing occurrence is
\* reported with its line number and never ends the run: the loop handles
\* every occurrence of the file, in order, each with the outcome it has when
\* taken alone, and the run never stops after an occurrence was handled.
C5_FailureIsolated ==
    tool \in {"reminders", "calendar"} /\ history # <<>> =>
        LET ev == RunEvents(Len(history)) IN
        /\ pc = "crashed" => ev = <<>>
        /\ pc = "loop" => Len(ev) = idx - 1
        /\ pc = "done" => Len(ev) = Len(tags)
        /\ \A k \in 1..Len(ev) :
              /\ ev[k].idx = k
              /\ ev[k].line_no = tags[k].line_no
              /\ ev[k].kind = OutcomeAlone(k)
              /\ ev[k].reported = IF Failed(ev[k]) THEN tags[k].line_no ELSE 0

\* C5 witness: a finished reminders run in which an occurrence failed at
\* parsing, another on a later line in the executor, and the last one was
\* dispatched.
C5_Witness ==
    /\ tool = "reminders" /\ pc = "done" /\ history # <<>>
    /\ LET ev == RunEvents(Len(history)) IN
       /\ Len(ev) = 2
       /\ ev[1].kind = "error" /\ ev[1].reported = 1
       /\ Dispatched(ev[2]) /\ ev[2].line_no = 3

\* occurrence k of the current imessage run is valid and not yet sent: it
\* parses, has to and message, and its marker is not in the log the run
\* loaded
Sendable(k) ==
    LET parsed == parse_tag_params(tags[k].params_text)
        log == IF cur.reset_log THEN <<>> ELSE cur.sent_log_file.lines
    IN  /\ ~parsed.err
        /\ Truthy(Get(parsed.data, TO_KEY)) /\ Truthy(Get(parsed.data, MSG_KEY))
        /\ \A i \in 1..Len(log) : Strip(log[i]) # source_marker(cur.path, tags[k].line_no)

\* C6: in imessage_send.main a malformed tag or a failed or timed-out send
\* of one occurrence does not abort the run: when the run with --yes has
\* ended, the executor was run for every valid, not-yet-sent occurrence.
C6_SendFailureIsolated ==
    tool = "imessage" /\ history # <<>> /\ ~cur.dry_run /\ pc \in {"done", "crashed"} =>
        /\ pc # "crashed"
        /\ \A k \in 1..Len(tags) : Sendable(k) =>
              \E n \in 1..Len(trace) :
                  trace[n].run = Len(history) /\ trace[n].idx = k /\ trace[n].kind = "call"

\* the entries the ledger holds before the loop of the current run starts
LedgerBase ==
    IF tags # <<>> /\ cur.reset_log /\ ~cur.dry_run THEN <<>> ELSE _load_sent_log(cur.ledger)

LogBase == IF tags # <<>> /\ cur.reset_log THEN <<>> ELSE cur.sent_log_file.lines

\* the successful executor calls of the current run, in order
Successes == SelectSeq(RunEvents(Len(history)), Dispatched)

\* C7: a ledger entry is recorded only after a successful dispatch: what a
\* run of reminders process_file or imessage_send.main has added to the
\* ledger (sent_reminders.json, imessage_sent.log) is, in order, one entry
\* for each executor call of the run that returned success, the run being
\* no dry run; a call that errored or timed out adds none.
C7_RecordedOnlyAfterSuccess ==
    history # <<>> =>
        /\ tool = "reminders" =>
              LET now == _load_sent_log(ledger) IN
              /\ Len(now) = Len(LedgerBase) + Len(Successes)
              /\ SubSeq(now, 1, Len(LedgerBase)) = LedgerBase
              /\ \A k \in 1..Len(Successes) :
                    LET en == now[Len(LedgerBase) + k] IN
                    /\ en.source = Successes[k].marker
                    /\ en.message = Successes[k].name
                    /\ en.line = IntText(Successes[k].line_no)
              /\ Successes # <<>> => ~cur.dry_run
        /\ tool = "imessage" =>
              /\ sent_log_file.lines
                     = LogBase \o [k \in 1..Len(Successes) |-> Successes[k].marker]
              /\ Successes # <<>> => ~cur.dry_run

\* C7 witness: a finished reminders run whose first executor call timed out
\* and whose second succeeded; the ledger has one entry more.
C7_Witness ==
    /\ tool = "reminders" /\ pc = "done" /\ history # <<>>
    /\ LET ev == RunEvents(Len(history)) IN
       /\ Len(ev) = 2
       /\ ev[1].kind = "call" /\ ev[1].result = "timeout"
       /\ Dispatched(ev[2])
    /\ Len(_load_sent_log(ledger)) = Len(LedgerBase) + 1
    /\ LedgerBase # <<>>

\* the current run is a finished non-dry-run run with reset_log = true over
\* a file whose occurrences are all valid and all have an entry, written by
\* earlier runs, in the ledger the run found; every executor call succeeded
ResetRerun ==
    /\ tool = "reminders" /\ pc = "done" /\ Len(history) > 1 /\ tags # <<>>
    /\ cur.reset_log /\ ~cur.dry_run
    /\ \A k \in 1..Len(tags) :
          LET occ == resolve_occurrence(cur.path, tags[k].params_text, cur.now) IN
          /\ ~occ.err
          /\ \E i \in 1..Len(_load_sent_log(cur.ledger)) :
                _load_sent_log(cur.ledger)[i].source = occ.marker
    /\ \A n \in 1..Len(trace) :
          trace[n].run = Len(history) /\ trace[n].kind = "call" => trace[n].result = "ok"

\* C8: a non-dry-run run with reset_log = true over a file whose
\* occurrences are all valid and were all recorded by earlier runs
\* dispatches every occurrence of the file exactly once: none skipped, none
\* dispatched twice.
C8_ResetRedispatchesOnce ==
    ResetRerun =>
        \A k \in 1..Len(tags) :
            Cardinality({n \in 1..Len(trace) :
                            /\ trace[n].run = Len(history)
                            /\ trace[n].idx = k
                            /\ Dispatched(trace[n])}) = 1

\* C8 witness: such a run over a file with two occurrences, one of them
\* with an explicit id.
C8_Witness ==
    /\ ResetRerun
    /\ Len(tags) = 2
    /\ \E n \in 1..Len(trace) :
          trace[n].run = Len(history) /\ trace[n].id # <<>> /\ Dispatched(trace[n])

\* C9: after a non-dry-run run with reset_log = true, whatever the number
\* of tags of the file (zero included), the ledger holds no entry that
\* existed before the run, and the run's skip-set is the one of an empty
\* ledger.
C9_ResetClearsLedger ==
    tool = "reminders" /\ history # <<>> /\ cur.reset_log /\ ~cur.dry_run =>
        /\ \A i \in 1..Len(_load_sent_log(ledger)) :
              \A j \in 1..Len(_load_sent_log(cur.ledger)) :
                  _load_sent_log(ledger)[i] # _load_sent_log(cur.ledger)[j]
        /\ sent_ids = {}

\* the ledger file is absent, no valid JSON, no JSON list, or a JSON list
\* with an element that is no object
CorruptOrMissing(file) ==
    \/ file.kind \in {"absent", "notjson", "nonlist"}
    \/ file.kind = "list" /\ \E i \in 1..Len(file.entries) : ~file.entries[i].object

\* C10: whatever the ledger file holds (absent, invalid JSON, a JSON value
\* that is no list, a list with elements that are no objects), reminders
\* process_file starts with an empty skip-set, does not abort, and handles
\* every occurrence of the file.
C10_CorruptLedgerIsEmpty ==
    tool = "reminders" /\ history # <<>> /\ CorruptOrMissing(cur.ledger) =>
        /\ sent_ids = {}
        /\ pc # "crashed"
        /\ pc = "done" => Len(RunEvents(Len(history))) = Len(tags)

\* C11: calendar_cli.process_file run again in non-dry-run mode on an
\* unmodified file creates no second event for an occurrence whose event
\* (same title, description with the occurrence's marker) an earlier run
\* created: Calendar.app holds at most one event for each title and marker.
C11_UpdatesInPlace ==
    tool = "calendar" =>
        \A i, j \in 1..Len(events) :
            events[i].summary = events[j].summary /\ events[i].marker = events[j].marker
                => i = j

\* C12: once imessage_send has sent and recorded a tag, a later run with
\* --yes and without --reset-log on the same file, edited elsewhere (lines
\* inserted or removed above the tag, the tag's text unchanged), does not
\* send that tag again.  (The files of repeated runs hold one tag; its
\* message tells it.)
C12_NoResendAfterEdit ==
    tool = "imessage" =>
        \A i, j \in 1..Len(trace) :
            /\ Dispatched(trace[i])
            /\ trace[j].run > trace[i].run
            /\ \A r \in Runs : trace[i].run < r /\ r <= trace[j].run => ~history[r].reset_log
            /\ history[trace[j].run].path = history[trace[i].run].path
            /\ trace[j].name = trace[i].name
            => trace[j].kind # "call"

\* C13: a @calendar or @imessage tag whose message value holds ")" and ","
\* inside its double quotes is scanned by find_calendar_tags_in_text /
\* find_tags_in_text as one occurrence and parsed with the full text as the
\* message, neither split nor truncated.
C13_QuotedPunctuationKept ==
    /\ subject.fn \in {"find_calendar_tags_in_text", "send_find_tags_in_text"}
    /\ answer.returned
    => /\ Len(answer.value) = 1
       /\ ~answer.value[1].parsed.err
       /\ Get(answer.value[1].parsed.data, MSG_KEY) = subject.body

\* position p of the text t follows an odd number of backslashes in a row:
\* the backslash before it consumes it
Consumed(t, p) ==
    \E k \in 1..(p - 1) :
        /\ k % 2 = 1
        /\ \A q \in (p - k)..(p - 1) : t[q] = BS
        /\ (p - k = 1 \/ t[p - k - 1] # BS)

\* position p of t is inside double quotes: an odd number of double quotes
\* that are not consumed stand before it
InQuotes(t, p) ==
    Cardinality({q \in 1..(p - 1) : t[q] = DQ /\ ~Consumed(t, q)}) % 2 = 1

\* the positions up to p that hold ch outside quotes, not consumed
Unquoted(t, ch, p) ==
    {q \in 1..p : t[q] = ch /\ ~Consumed(t, q) /\ ~InQuotes(t, q)}

\* the parenthesis depth after position p, 1 at the opener
DepthAfter(t, p) ==
    1 + Cardinality(Unquoted(t, "(", p)) - Cardinality(Unquoted(t, ")", p))

\* the positions of t where an unquoted, unconsumed ")" brings the depth to 0
Closers(t) ==
    {p \in 1..Len(t) : /\ t[p] = ")"
                       /\ ~Consumed(t, p)
                       /\ ~InQuotes(t, p)
                       /\ DepthAfter(t, p) = 0}

FirstCloser(t) == CHOOSE p \in Closers(t) : \A q \in Closers(t) : p <= q

\* C14: _extract_tag_params_from_line closes the occurrence at the first ")"
\* that is outside double quotes, is not consumed by a backslash and brings
\* the depth (1 at the opener, one more for each unquoted "(") to 0; the
\* parameter text is exactly the characters between the opener and that ")",
\* and without such a ")" the line yields no occurrence.
C14_ClosesAtDepthZero ==
    /\ subject.fn = "_extract_tag_params_from_line"
    /\ answer.returned
    => answer.value = IF Closers(subject.tail) = {} THEN <<>>
                      ELSE <<SubSeq(subject.tail, 1, FirstCloser(subject.tail) - 1)>>

\* a quoted ")" and a quoted "," stand before the ")" that closes
C14_Witness ==
    /\ subject.fn = "_extract_tag_params_from_line"
    /\ answer.returned
    /\ Closers(subject.tail) # {}
    /\ \E q \in 1..(FirstCloser(subject.tail) - 1) :
           subject.tail[q] = ")" /\ InQuotes(subject.tail, q)
    /\ Len(answer.value) = 1

\* what the written piece stands for
TokenMeant(tok) ==
    CASE tok = "quote" -> <<DQ>>
      [] tok = "backslash" -> <<BS>>
      [] tok = "newline" -> <<NL>>
      [] tok = "tab" -> <<TAB>>
      [] OTHER -> <<tok>>

RECURSIVE Meant(_)
Meant(tokens) ==
    IF tokens = <<>> THEN <<>> ELSE TokenMeant(Head(tokens)) \o Meant(Tail(tokens))

\* C15: for a value wrapped in double quotes parse_tag_params returns the
\* content without the quotes and with backslash-quote, backslash-backslash,
\* backslash-n and backslash-t replaced by a double quote, a backslash, a
\* newline and a tab; an unquoted value is returned as its trimmed raw text.
C15_Unescaped ==
    /\ subject.fn = "parse_tag_params"
    /\ answer.returned
    => /\ ~answer.value.err
       /\ subject.quoted => Get(answer.value.data, MSG_KEY) = Meant(subject.tokens)
       /\ ~subject.quoted /\ Strip(subject.tokens) # <<>>
              => Get(answer.value.data, MSG_KEY) = Strip(subject.tokens)

\* C16: a message m written into a tag as message="e(m)", e doubling each
\* backslash and putting a backslash before each double quote, then scanned
\* with _extract_tag_params_from_line and parsed with parse_tag_params, gives
\* exactly one occurrence whose message is m.
C16_RoundTrip ==
    /\ subject.fn = "find_tags_in_text"
    /\ answer.returned
    => /\ Len(answer.value) = 1
       /\ ~answer.value[1].parsed.err
       /\ Get(answer.value[1].parsed.data, MSG_KEY) = subject.body

\* the instant one day, one hour and one minute after t, by carrying
NextDay(t) ==
    IF t.day < DaysInMonth(t.year, t.month) THEN [t EXCEPT !.day = @ + 1]
    ELSE IF t.month < 12 THEN [t EXCEPT !.day = 1, !.month = @ + 1]
    ELSE [t EXCEPT !.day = 1, !.month = 1, !.year = @ + 1]

NextHour(t) == IF t.hour < 23 THEN [t EXCEPT !.hour = @ + 1] ELSE NextDay([t EXCEPT !.hour = 0])

NextMinute(t) ==
    IF t.minute < 59 THEN [t EXCEPT !.minute = @ + 1] ELSE NextHour([t EXCEPT !.minute = 0])

\* t plus n units, one unit at a time: the first half of the units, then
\* the second
RECURSIVE After(_, _, _)
After(t, unit, n) ==
    IF n = 0 THEN t
    ELSE IF n = 1 THEN (CASE unit = "m" -> NextMinute(t)
                          [] unit = "h" -> NextHour(t)
                          [] unit = "d" -> NextDay(t))
    ELSE CHOOSE r \in {After(half, unit, n - n \div 2) : half \in {After(t, unit, n \div 2)}} : TRUE

\* the instant the written expression stands for
Meaning(form, f, now) ==
    CASE form = "relative" -> After(now, f.unit, f.n)
      [] form = "today" -> DateTime(now.year, now.month, now.day, f.hh, f.mm, 0)
      [] form = "tomorrow" ->
             [NextDay(now) EXCEPT !.hour = f.hh, !.minute = f.mm, !.second = 0]
      [] form = "absolute" -> DateTime(f.date.year, f.date.month, f.date.day, f.hh, f.mm, f.ss)

\* C17: parse_at_expression resolves "+<N>m", "+<N>h", "+<N>d" to now plus
\* exactly N minutes, hours or days, "today HH:MM" to now's date at HH:MM:00,
\* "tomorrow HH:MM" to the date after now's at HH:MM:00 (month and year
\* rollover included) and "YYYY-MM-DD HH:MM[:SS]" to that instant whatever
\* now is, for every instant that a datetime can hold (up to year MAXYEAR).
C17_AtResolved ==
    /\ subject.fn = "parse_at_expression"
    /\ answer.returned
    /\ Meaning(subject.form, subject.fields, subject.now).year <= MAXYEAR
    => answer.value = Resolved(Meaning(subject.form, subject.fields, subject.now))

\* "+<N>h" carried over the end of a year
C17_Witness ==
    /\ subject.fn = "parse_at_expression"
    /\ answer.returned
    /\ subject.form = "relative"
    /\ subject.fields.unit = "h"
    /\ ~answer.value.err
    /\ answer.value.t.year = subject.now.year + 1

\* the expression has the form +<N>m, +<N>h or +<N>d
RelativeForm(e) ==
    /\ Len(e) >= 3
    /\ e[1] = "+"
    /\ e[Len(e)] \in {"m", "h", "d"}
    /\ \A p \in 2..(Len(e) - 1) : IsDigit(e[p])

\* the expressions of the runs that match no rule of the grammar (the short
\* ones hold no letter of "today" or "tomorrow" and no "-"), or that have an
\* hour above 23 or a minute above 59
Unresolvable == {e \in ShortAts : ~RelativeForm(e)} \cup OutOfRangeAts

\* the run r read a file whose tag has the at-expression e
RunOfAt(r, e) ==
    history[r].text \in {AtLine(REMINDER_OPENER, e), AtLine(CALENDAR_OPENER, e)}

\* C18: for an at-expression that matches none of the four grammar rules, or
\* that has an hour above 23 or a minute above 59 in a today, tomorrow or
\* absolute form, parse_at_expression fails and returns no timestamp, and the
\* occurrence is reported as an error and never dispatched.
C18_NeverDefaults ==
    scenario = "at" =>
        \A r \in 1..Len(history), e \in Unresolvable :
            RunOfAt(r, e) =>
                /\ parse_at_expression(e, history[r].now) = Raised
                /\ \A k \in 1..Len(trace) : trace[k].run = r => trace[k].kind = "error"

\* a run without dry_run has finished over "today 24:00": one error, no call
C18_Witness ==
    /\ scenario = "at"
    /\ pc = "done"
    /\ Len(history) = 1
    /\ ~history[1].dry_run
    /\ RunOfAt(1, TODAY \o <<" ", "2", "4", ":", "0", "0">>)
    /\ Len(trace) = 1
    /\ trace[1].kind = "error"

\* the identity of the tag of a placement: its file's last occurrence
TagMarker(occs) == occs[Len(occs)].marker

\* C19: without an explicit id the identity of _compute_stable_marker is a
\* function of (absolute path, message) only: the line number, the position
\* among other tags and the at, list, note, priority and flagged values do
\* not change it, and another message does; with a non-empty explicit id it
\* is a function of the id only, whatever the path, line and message.
C19_IdentityStable ==
    /\ subject.fn = "_compute_stable_marker"
    /\ answer.returned
    => LET one == subject.first
           two == subject.second
           same == TagMarker(answer.value[1]) = TagMarker(answer.value[2])
       IN  /\ one.id = <<>> /\ two.id = <<>> /\ one.path = two.path
                  => (same <=> one.message = two.message)
           /\ one.id # <<>> /\ one.id = two.id => same

\* C20: two occurrences of one file that have no explicit id and different
\* messages never have the same hash-fallback identity.
C20_NoHashCollision ==
    /\ subject.fn = "_compute_stable_marker"
    /\ answer.returned
    => \A f \in {1, 2} :
           \A i, j \in 1..Len(answer.value[f]) :
               /\ answer.value[f][i].explicit_id = <<>>
               /\ answer.value[f][j].explicit_id = <<>>
               /\ answer.value[f][i].name # answer.value[f][j].name
               => answer.value[f][i].marker # answer.value[f][j].marker
\* the wall clock a is not before b
NotBefore(a, b) ==
    LET minutes(t) == (ToOrdinal(t.year, t.month, t.day) - 1) * 1440 + t.hour * 60 + t.minute
    IN  minutes(a) > minutes(b) \/ (minutes(a) = minutes(b) /\ a.second >= b.second)

\* the local wall clock of a row of the store in the zone of the run
LocalOf(row, offset) == PlusDelta(row.date, 0, offset * 60).t

\* the text starts with a trigger word, in any case
TriggerWordAt(text, k) ==
    /\ Len(text) >= Len(TRIGGER_WORDS[k])
    /\ Lower(SubSeq(text, 1, Len(TRIGGER_WORDS[k]))) = TRIGGER_WORDS[k]

\* the trimmed text after the trigger word and its ":" or "-"; empty when
\* the text does not start with a trigger
CueBody(text) ==
    LET ks == {k \in 1..Len(TRIGGER_WORDS) :
                  /\ TriggerWordAt(text, k)
                  /\ Len(text) > Len(TRIGGER_WORDS[k])
                  /\ text[Len(TRIGGER_WORDS[k]) + 1] \in {":", "-"}}
    IN  IF ks = {} THEN <<>>
        ELSE Strip(SubSeq(text, Len(TRIGGER_WORDS[CHOOSE k \in ks : TRUE]) + 2, Len(text)))

\* a dry run with the default options over a store, the cutoff understood
IngestDryRun ==
    /\ subject.fn = "ingest_main"
    /\ answer.returned
    /\ subject.db.kind = "store"
    /\ subject.args.dry_run
    /\ subject.args.contains = None /\ subject.args.contacts = None
    /\ ~parse_since(subject.args.since, subject.now).err

IsReminderLine(line) == StartsWithAt(line, <<"@", "r", "e", "m", "i", "n", "d", "e", "r", "(">>, 1)

\* C21: in a dry run, every message of the store dated on or after the
\* cutoff whose text starts with todo, to-do or task (in any case), then ":"
\* or "-", then a non-empty body, makes the run end with status 0 and print
\* a line beginning @reminder(message="<body>" with the trimmed body; a
\* store in which no text starts with a trigger word prints no tag.
C21_EveryCueEmitted ==
    IngestDryRun =>
        LET rows == subject.db.rows
            cutoff == parse_since(subject.args.since, subject.now).t
        IN  /\ \A k \in 1..Len(rows) :
                   (/\ rows[k].text # None
                    /\ CueBody(rows[k].text) # <<>>
                    /\ NotBefore(LocalOf(rows[k], subject.offset), cutoff))
                   => /\ answer.value.status = 0
                      /\ \E n \in 1..Len(answer.value.stdout) :
                             StartsWithAt(answer.value.stdout[n],
                                          <<"@", "r", "e", "m", "i", "n", "d", "e", "r", "(", "m", "e", "s", "s", "a", "g", "e", "=", "\"">> \o CueBody(rows[k].text)
                                              \o <<DQ>>, 1)
            /\ (\A k \in 1..Len(rows) :
                    rows[k].text = None
                    \/ \A w \in 1..Len(TRIGGER_WORDS) : ~TriggerWordAt(LStrip(rows[k].text), w))
               => \A n \in 1..Len(answer.value.stdout) :
                      ~IsReminderLine(answer.value.stdout[n])

\* C22: in a run that writes (not a dry run) and does not ignore the ledger,
\* once an occurrence with a non-empty explicit id was dispatched and
\* recorded, a later valid occurrence of the same run with the same id is
\* skipped, so the ledger never gets two entries with that id.
C22_SameIdSkippedInRun ==
    \A i, j \in 1..Len(trace) :
        (/\ i < j
         /\ trace[i].run = trace[j].run
         /\ ~history[trace[i].run].dry_run
         /\ ~history[trace[i].run].ignore_sent_log
         /\ Dispatched(trace[i])
         /\ trace[i].id # <<>>
         /\ trace[j].id = trace[i].id
         /\ trace[j].kind # "error")
        => /\ trace[j].kind = "skip"
           /\ \A a, b \in 1..Len(ledger.entries) :
                  (/\ a < b
                   /\ ledger.entries[a].object /\ ledger.entries[b].object
                   /\ ledger.entries[a].id = trace[i].id)
                  => ledger.entries[b].id # trace[i].id

\* the pieces of a parameter text between its commas outside double quotes,
\* from position p on, with the piece begun in piece
RECURSIVE Pieces(_, _, _, _)
Pieces(t, p, quoted, piece) ==
    IF p > Len(t) THEN <<piece>>
    ELSE IF t[p] = "," /\ ~quoted THEN <<piece>> \o Pieces(t, p + 1, FALSE, <<>>)
    ELSE Pieces(t, p + 1, IF t[p] = DQ THEN ~quoted ELSE quoted, Append(piece, t[p]))

\* the non-empty top-level segments, trimmed
TopSegments(t) ==
    LET trimmed == [k \in 1..Len(Pieces(t, 1, FALSE, <<>>)) |-> Strip(Pieces(t, 1, FALSE, <<>>)[k])]
    IN  SelectSeq(trimmed, LAMBDA s : s # <<>>)

\* a double-quoted string: an opening and a closing double quote
FullyQuoted(s) == Len(s) >= 2 /\ s[1] = DQ /\ s[Len(s)] = DQ

\* C23: parse_tag_params raises the malformed-parameter error exactly when
\* some non-empty top-level segment holds no "=" and is not a fully
\* double-quoted first segment; a fully double-quoted segment without "="
\* is the message in first position and raises in any later position.
C23_MalformedExactly ==
    (subject.fn = "parse_tag_params" /\ answer.returned /\ "tokens" \notin DOMAIN subject)
    => LET segs == TopSegments(subject.text)
           malformed == \E k \in 1..Len(segs) :
                            /\ ~Contains(segs[k], "=")
                            /\ ~(k = 1 /\ FullyQuoted(segs[k]))
       IN  /\ answer.value.err <=> malformed
           /\ (segs # <<>> /\ FullyQuoted(segs[1]) /\ ~Contains(segs[1], "=") /\ ~malformed)
              => Get(answer.value.data, MSG_KEY) = SubSeq(segs[1], 2, Len(segs[1]) - 1)

\* the scanned occurrences without what the parser made of them
Scanned(found) ==
    [k \in 1..Len(found) |->
        [line_no |-> found[k].line_no, params_text |-> found[k].params_text]]

\* the first line holds an opener that no ")" closes
UnterminatedCall ==
    /\ subject.fn = "find_tags_in_text"
    /\ "following" \in DOMAIN subject
    /\ answer.returned
    /\ Closers(subject.tail) = {}

\* C24: when no ")" outside quotes brings the depth of an opener to 0 before
\* the end of its line, the line yields exactly the occurrences closed
\* before that opener and nothing for it or after it, and every following
\* line is scanned as a text of its own: quotes and depth do not carry over.
C24_UnterminatedStopsLine ==
    UnterminatedCall =>
        Scanned(answer.value) =
            (IF subject.before = <<>> THEN <<>>
             ELSE <<[line_no |-> 1, params_text |-> <<"a">>]>>)
            \o subject.following.tags

\* an opener left open inside a quote, after a closed tag and before
\* another opener, with a tag behind a quote on the next line
C24_Witness ==
    /\ UnterminatedCall
    /\ subject.before # <<>>
    /\ InQuotes(subject.tail, Len(subject.tail))
    /\ Find(subject.tail, REMINDER_OPENER, 1) # 0
    /\ Len(subject.following.lines) = 1 /\ subject.following.lines[1][1] = DQ
    /\ Len(answer.value) = 2

\* the elements of a set of numbers in ascending order
RECURSIVE Ascending(_)
Ascending(S) ==
    IF S = {} THEN <<>>
    ELSE LET lo == CHOOSE p \in S : \A q \in S : p <= q
         IN  <<lo>> \o Ascending(S \ {lo})

\* what stands between the opener at position p of the text and the end of
\* its line
AfterOpener(text, p) ==
    SubSeq(text, p + Len(REMINDER_OPENER),
           IF Find(text, <<NL>>, p) = 0 THEN Len(text) ELSE Find(text, <<NL>>, p) - 1)

\* the positions of the openers of the text that are closed on their line
\* (no tag of the files of the runs holds another opener)
WellFormedOpeners(text) ==
    {p \in 1..Len(text) :
        StartsWithAt(text, REMINDER_OPENER, p) /\ Closers(AfterOpener(text, p)) # {}}

\* the occurrence opened at position p: its 1-based line number and the
\* text up to the ")" that closes it
OccurrenceAt(text, p) ==
    [line_no |-> 1 + Cardinality({q \in 1..p : text[q] = NL}),
     params_text |-> SubSeq(AfterOpener(text, p), 1, FirstCloser(AfterOpener(text, p)) - 1)]

\* the occurrences of the text by line number, then by position in the line
InSourceOrder(text) ==
    [k \in 1..Cardinality(WellFormedOpeners(text)) |->
        OccurrenceAt(text, Ascending(WellFormedOpeners(text))[k])]

\* C25: find_tags_in_text returns every well-formed occurrence, several on
\* one line included, by line number and then by position in the line;
\* process_file handles them in exactly that order, one after the other:
\* the m-th event of a run is about the m-th occurrence, and the entries the
\* run has appended to the ledger are those of its successful dispatches so
\* far, in that order.
C25_SourceOrder ==
    (tool = "reminders" /\ history # <<>>) =>
        LET ev == RunEvents(Len(history))
            now == _load_sent_log(ledger)
        IN  /\ pc # "crashed" => tags = InSourceOrder(cur.text)
            /\ \A m \in 1..Len(ev) :
                   ev[m].idx = m /\ ev[m].line_no = tags[m].line_no
            /\ pc = "loop" => Len(ev) = idx - 1
            /\ pc = "done" => Len(ev) = Len(tags)
            /\ Len(now) = Len(LedgerBase) + Len(Successes)
            /\ \A k \in 1..Len(Successes) :
                   /\ now[Len(LedgerBase) + k].line = IntText(Successes[k].line_no)
                   /\ now[Len(LedgerBase) + k].message = Successes[k].name

\* a finished run over a line with two tags, both dispatched and recorded
C25_Witness ==
    /\ tool = "reminders" /\ pc = "done" /\ history # <<>>
    /\ Len(tags) = 2 /\ tags[1].line_no = tags[2].line_no
    /\ Len(Successes) = 2
    /\ Len(_load_sent_log(ledger)) = Len(LedgerBase) + 2
    /\ _load_sent_log(ledger)[Len(LedgerBase) + 1].message # _load_sent_log(ledger)[Len(LedgerBase) + 2].message

\* the segments of the subject with the positional message as a first
\* segment of the field "message"
FieldsWritten ==
    (IF subject.positional THEN <<[key |-> MSG_KEY, val |-> <<"p">>]>> ELSE <<>>)
    \o [k \in 1..Len(subject.segments) |->
           [key |-> subject.segments[k].key, val |-> subject.segments[k].val]]

DuplicateCall ==
    /\ subject.fn = "parse_tag_params"
    /\ "segments" \in DOMAIN subject
    /\ answer.returned

\* C26: when a field name occurs more than once in a tag, parse_tag_params
\* keeps one entry for it, holding the value of its last occurrence; a
\* positional first-segment message gives way to a later message=...
C26_LastValueWins ==
    DuplicateCall =>
        /\ ~answer.value.err
        /\ DOMAIN answer.value.data = {FieldsWritten[k].key : k \in 1..Len(FieldsWritten)}
        /\ \A k \in 1..Len(FieldsWritten) :
               (\A later \in (k + 1)..Len(FieldsWritten) :
                    FieldsWritten[later].key # FieldsWritten[k].key)
               => answer.value.data[FieldsWritten[k].key] = FieldsWritten[k].val

\* a positional message followed by message="q", and x written three times
C26_Witness ==
    /\ DuplicateCall
    /\ subject.positional
    /\ Len(subject.segments) = 3
    /\ subject.segments[1].key = MSG_KEY
    /\ subject.segments[2].val = <<"1">> /\ subject.segments[3].val = <<"3">>
    /\ subject.segments[2].key = subject.segments[3].key
    /\ answer.value.data[MSG_KEY] = <<"q">>
    /\ answer.value.data[<<"x">>] = <<"3">>

\* the current run writes, does not reset, and found a ledger file holding
\* a list of entries
AppendingRun ==
    /\ tool = "reminders" /\ history # <<>>
    /\ ~cur.dry_run /\ ~cur.reset_log
    /\ cur.ledger.kind = "list"
    /\ \A k \in 1..Len(cur.ledger.entries) : cur.ledger.entries[k].object

\* C27: between resets the ledger is append-only: in a run that writes with
\* reset_log = false over a ledger file holding a list of entries, the
\* ledger is at every moment the ledger the run found, unchanged and in its
\* order, followed by one entry for each occurrence dispatched with success
\* so far, in the order of the dispatches; an occurrence that is skipped or
\* fails adds nothing.
C27_AppendOnly ==
    AppendingRun =>
        /\ ledger.kind = "list"
        /\ Len(ledger.entries) = Len(cur.ledger.entries) + Len(Successes)
        /\ SubSeq(ledger.entries, 1, Len(cur.ledger.entries)) = cur.ledger.entries
        /\ \A k \in 1..Len(Successes) :
               LET en == ledger.entries[Len(cur.ledger.entries) + k] IN
               /\ en.object
               /\ en.id = Successes[k].id
               /\ en.message = Successes[k].name
               /\ en.source = Successes[k].marker
               /\ en.file = cur.path
               /\ en.line = IntText(Successes[k].line_no)

\* a finished run over a ledger with one entry: one occurrence skipped, one
\* failed or dispatched, and the old entry still first
C27_Witness ==
    /\ AppendingRun /\ pc = "done"
    /\ Len(cur.ledger.entries) = 1
    /\ \E n \in 1..Len(trace) : trace[n].kind = "skip"
    /\ Len(Successes) = 1
    /\ Len(ledger.entries) = 2
    /\ ledger.entries[1] = OldEntry

\* a finished call of apply_filters
FilterCall == subject.fn = "apply_filters" /\ answer.returned

\* C28: apply_filters returns the kept items newest first by date, and the
\* items without a date after every item that has one.
C28_NewestFirstUndatedLast ==
    FilterCall =>
        \A i, j \in 1..Len(answer.value) :
            i < j =>
                LET a == answer.value[i].item.date
                    b == answer.value[j].item.date
                IN  /\ a.dated /\ b.dated => a.utc >= b.utc
                    /\ ~a.dated => ~b.dated

\* what is written in the files of EditedSendFiles: the recipient and the
\* message of each tag, in the order of the text
WrittenTags(text) ==
    LET a == [to |-> <<"+", "1">>, message |-> <<"a">>]
        c == [to |-> <<"+", "1">>, message |-> <<"c">>]
    IN  IF text = File(PATH_A, <<I_A>>).text THEN <<a>>
        ELSE IF text = File(PATH_A, <<I_C>>).text THEN <<c>>
        ELSE <<a, c>>

\* the tag the event is about, as written in the file of its run
TagOf(e) == WrittenTags(history[e.run].text)[e.idx]

\* C29: in imessage_send, over any sequence of runs and edits of the file
\* between them (the log is never reset), an occurrence is skipped as
\* already sent only if a send to the same recipient with the same message
\* succeeded before; a tag whose send never succeeded is therefore queued,
\* and sent, by the next --yes run that reaches it.
C29_SkippedOnlyIfSent ==
    scenario = "edits" =>
        \A j \in 1..Len(trace) :
            trace[j].kind = "skip" =>
                \E i \in 1..(j - 1) :
                    /\ Dispatched(trace[i])
                    /\ TagOf(trace[i]) = TagOf(trace[j])

\* C30: the @reminder line that format_tags writes for a task returned by
\* extract_task_from_text and a meta note built by main is scanned by
\* find_tags_in_text as exactly one occurrence, which parse_tag_params reads
\* without error, with the task as its message and with the at, list and
\* note given to format_tags.
C30_IngestRoundTrip ==
    subject.fn = "format_tags" /\ answer.returned =>
        /\ Len(answer.value.found) = 1
        /\ ~answer.value.found[1].parsed.err
        /\ Get(answer.value.found[1].parsed.data, MSG_KEY) = answer.value.task
        /\ Get(answer.value.found[1].parsed.data, AT_KEY) = subject.args.default_at
        /\ Get(answer.value.found[1].parsed.data, LIST_KEY) = subject.args.reminder_list
        /\ Get(answer.value.found[1].parsed.data, NOTE_KEY) = answer.value.meta_note

\* the same with the tasks that hold a double quote or a backslash set aside
C30_PlainTasks ==
    \/ \E k \in 1..Len(subject.row.text) : subject.row.text[k] \in {DQ, BS}
    \/ C30_IngestRoundTrip

====
